---------------------------- MODULE Spec2Model ----------------------------
(***************************************************************************)
(* bionode-ncbi: streams over the NCBI e-utils API.                        *)
(*                                                                         *)
(* The model follows lib/bionode-ncbi.js (the 796-line revision with       *)
(* valid-dbs and fetch).  A pipeline is a chain of through2 transforms     *)
(* joined by pumpify; the synchronous transforms (URL builders, paginator, *)
(* link-object builder) run inside the push of the stage before them, the  *)
(* asynchronous ones (requestStream) are state machines whose steps are    *)
(* the transform call, the arrival of a response and the two timers.       *)
(***************************************************************************)
EXTENDS Integers, Sequences, FiniteSets, TLC

(***************************************************************************)
(* Bounds of the model.                                                    *)
(***************************************************************************)
MaxFails == 10      \* consecutive failed responses the upstream may give one URL
MaxLimit == 4       \* largest opts.limit enumerated
MaxThroughput == 3  \* largest opts.throughput enumerated
MaxCount == 5       \* largest small esearchresult.count enumerated
MaxUrls == 2        \* URLs or terms written to one stream
PipeFails == 1      \* failed responses per URL inside a whole pipeline
PipeCount == 2      \* largest esearchresult.count inside a whole pipeline
MaxRecords == 2     \* records one inner search of expand may give
MaxRuns == 2        \* calls of ncbi.download, one after the other
OrderLimit == 4     \* opts.limit of the search whose output order is followed
OrderThroughput == 2  \* opts.throughput of that search
MaxProgress == 2    \* progress events of one transfer

(***************************************************************************)
(* Program constants.                                                      *)
(***************************************************************************)
RETURNMAX == 50
MAXTRIES == 9
idsChunkLen == 50
Unset == -1         \* an option that is undefined

VARIABLES
  call,     \* the entry point called: name, arguments, exception thrown, pipeline built
  opts,     \* the options the pipeline stages were created with
  rs,       \* the requestStream stages: per stage its buffer, current URL, tries, step
  pg,       \* the paginator: pushes, errors and completions for its last input
  lk,       \* createLinkObj: pushes, errors and completions for its last input
  out,      \* the pumpify output stream: records, errors, end, destroyed
  inp,      \* the input side: terms still to be written, ended
  proc,     \* the process: running | looping (a loop that never ends) | crashed
  xp,       \* an expand or plink transform: its record, inner streams, pushes
  dl,       \* the urls and download stages: pairs located, transfers, log entries
  cli       \* the command-line program: what it printed, its exit code

vars == <<call, opts, rs, pg, lk, out, inp, proc, xp, dl, cli>>

(***************************************************************************)
(* Values.                                                                 *)
(***************************************************************************)

\* The keys of the table of valid databases.
dbs ==
  { "gquery", "assembly", "bioproject", "biosample", "biosystems", "books",
    "clinvar", "clone", "cdd", "gap", "dbvar", "nucest", "gene", "genome",
    "gds", "geoprofiles", "nucgss", "gtr", "homologene", "medgen", "mesh",
    "ncbisearch", "nlmcatalog", "nuccore", "omim", "pmc", "popset", "probe",
    "protein", "proteinclusters", "pcassay", "pccompound", "pcsubstance",
    "pubmed", "pubmedhealth", "snp", "sparcle", "sra", "structure",
    "taxonomy", "toolkit", "toolkitall", "toolkitbook", "toolkitbookgh",
    "unigene" }

\* A request URL: the endpoint and the query parameters the code reads or writes.
\* "" and Unset stand for a parameter that is not in the query string.
Url(ep, db, dbfrom, term, webenv, retmax, retstart, id) ==
  [ep |-> ep, db |-> db, dbfrom |-> dbfrom, term |-> term, webenv |-> webenv,
   retmax |-> retmax, retstart |-> retstart, id |-> id]

NoUrl == Url("", "", "", <<>>, "", Unset, Unset, <<>>)

\* The XML of an elink response once parsed: LinkSet[0].LinkSetDb is a list of
\* [LinkName, Ids]; it is absent when the source record has no links at all.
LinkXml(parseErr, hasLinkSet, hasLinkSetDb, linkSetDb) ==
  [parseErr |-> parseErr, hasLinkSet |-> hasLinkSet,
   hasLinkSetDb |-> hasLinkSetDb, LinkSetDb |-> linkSetDb]

NoLink == LinkXml(FALSE, FALSE, FALSE, <<>>)

\* A response body: the fields the code looks at.
\*   empty   the body is falsy (undefined, "", null)
\*   esr     body.esearchresult is there; ERROR, webenv, count, idlist are its fields
\*   unable  body.esummaryresult[0] is the 'Unable to obtain query #1' sentinel
\*   error   body.error is there
\*   uids    body.result.uids of an esummary response
\*   link    the XML text of an elink response
\*   tag     tells two otherwise equal bodies apart
NoBody ==
  [empty |-> TRUE, esr |-> FALSE, ERROR |-> FALSE, webenv |-> "", count |-> Unset,
   idlist |-> <<>>, unable |-> FALSE, error |-> FALSE, uids |-> <<>>,
   link |-> NoLink, tag |-> ""]

\* What the request callback gets: (err, res, body).
Response(err, res, status, body) ==
  [err |-> err, res |-> res, statusCode |-> status, body |-> body]

\* What a requestStream pushes: {url, body} when returnURL is set, else the body.
Result(paired, url, body) == [paired |-> paired, url |-> url, body |-> body]

NoResult == Result(FALSE, NoUrl, NoBody)

\* The value of a field of a record: a scalar (v has one element) or an array.
Value(list, v) == [list |-> list, v |-> v]

Undefined == Value(FALSE, <<>>)

\* No record.
NoRecord == [uid |-> Undefined]

\* An error emitted on a stream.
\*   kind "retries": Query failed after <tries> tries ... This is what failed: <url>
\*   kind "invalid": NCBI returned invalid results ... Request URL: <url>
\*   kind "xml":     the parse error of xml2js
Error(kind, url, tries) == [kind |-> kind, url |-> url, tries |-> tries]

(***************************************************************************)
(* Query Builder.                                                          *)
(***************************************************************************)

\* obj.toString().replace(/['"]+/g, ''): quote characters are dropped.
StripQuotes(term) == SelectSeq(term, LAMBDA c : c \notin {"'", "\""})

\* encodeURI on the characters of the model: a space becomes %20.
encodeURIChar(c) == IF c = " " THEN "%20" ELSE c

encodeURI(term) == [i \in 1..Len(term) |-> encodeURIChar(term[i])]

\* The percent-decoding of a character.
decodeChar(c) == IF c = "%20" THEN " " ELSE c

\* The URL is DEFAULTS & db=<db> & term=<url.term> & usehistory=y.  encodeURI
\* leaves '&', '=' and '#' of the term as they are, so URL.parse reads them as
\* syntax: '#' starts the fragment, '&' ends the term and starts a parameter.

\* The characters of the term that are part of the query: those before '#'.
RECURSIVE BeforeHash(_)
BeforeHash(t) ==
  IF t = <<>> \/ Head(t) = "#" THEN <<>> ELSE <<Head(t)>> \o BeforeHash(Tail(t))

\* t split at every '&'.
RECURSIVE SplitAmp(_)
SplitAmp(t) ==
  IF t = <<>> THEN << <<>> >>
  ELSE IF Head(t) = "&" THEN << <<>> >> \o SplitAmp(Tail(t))
  ELSE LET r == SplitAmp(Tail(t)) IN << <<Head(t)>> \o Head(r) >> \o Tail(r)

\* A parameter key=value split at its first '='.
RECURSIVE KeyOf(_)
KeyOf(p) == IF p = <<>> \/ Head(p) = "=" THEN <<>> ELSE <<Head(p)>> \o KeyOf(Tail(p))

ValOf(p) == SubSeq(p, Len(KeyOf(p)) + 2, Len(p))

\* The characters of a value as one string.
RECURSIVE Joined(_)
Joined(v) == IF v = <<>> THEN "" ELSE Head(v) \o Joined(Tail(v))

\* The values of the db parameters of the URL, in order: the one
\* createAPISearchUrl wrote and those the term brings along.
dbParams(url) ==
  LET ps  == SplitAmp(BeforeHash(url.term))
      own == SelectSeq(Tail(ps), LAMBDA p : KeyOf(p) = <<"d", "b">>)
  IN  <<url.db>> \o [i \in 1..Len(own) |-> Joined(ValOf(own[i]))]

\* 'db=' + URL.parse(url, true).query.db: a parameter given twice is parsed to
\* an array, which the sum turns into its elements joined by commas.
RECURSIVE JoinComma(_)
JoinComma(v) ==
  IF Len(v) = 1 THEN v[1] ELSE v[1] \o "," \o JoinComma(Tail(v))

urlQueryDb(url) == JoinComma(dbParams(url))

\* URL.parse(url, true).query.term: the percent-decoding of the term parameter.
urlQueryTerm(url) ==
  LET t == Head(SplitAmp(BeforeHash(url.term)))
  IN  [i \in 1..Len(t) |-> decodeChar(t[i])]

createAPISearchUrl(db, term) ==
  Url("esearch", db, "", encodeURI(StripQuotes(term)), "", Unset, Unset, <<>>)

(***************************************************************************)
(* Paginator.                                                              *)
(***************************************************************************)

\* Math.ceil(a / b) for a >= 0, b >= 1.
CeilDiv(a, b) == (a + b - 1) \div b

\* The page size without the clamp to opts.limit.
ThroughputUnclamped(o) ==
  IF o.throughput = Unset \/ o.throughput = 0 THEN RETURNMAX ELSE o.throughput

\* var throughput = opts.throughput || RETURNMAX
\* if (opts.limit < throughput) { throughput = opts.limit }
\* (a comparison with an undefined limit is false)
Throughput(o) ==
  LET t0 == IF o.throughput = Unset \/ o.throughput = 0 THEN RETURNMAX
            ELSE o.throughput
  IN  IF o.limit # Unset /\ o.limit < t0 THEN o.limit ELSE t0

\* var count = opts.limit || esearchRes.count
EffectiveCount(o, body) ==
  IF o.limit # Unset /\ o.limit # 0 THEN o.limit ELSE body.count

\* The response has no esearchresult, or no webenv, or no count.
InvalidResults(body) ==
  \/ ~body.esr
  \/ body.webenv = ""
  \/ body.count = Unset

\* Math.ceil(count / throughput).  With throughput 0 the quotient is NaN for
\* count 0 (the loop body never runs) and Infinity otherwise (PaginateLoops).
NumRequests(o, body) ==
  IF Throughput(o) = 0 THEN 0
  ELSE CeilDiv(EffectiveCount(o, body), Throughput(o))

\* for (var i = 0; i < Infinity; i++): the loop never ends.
PaginateLoops(o, body) ==
  /\ ~InvalidResults(body)
  /\ body.count # 1
  /\ Throughput(o) = 0
  /\ EffectiveCount(o, body) > 0

\* Page requests whose offsets start one page late.
PageUrlFromOne(o, obj, i) ==
  Url("esearch", urlQueryDb(obj.url), "", urlQueryTerm(obj.url), obj.body.webenv,
      Throughput(o), (i + 1) * Throughput(o), <<>>)

\* The query of the i-th page request (i counted from 0).
PageUrl(o, obj, i) ==
  Url("esearch", urlQueryDb(obj.url), "", urlQueryTerm(obj.url), obj.body.webenv,
      Throughput(o), i * Throughput(o), <<>>)

\* The transform of createAPIPaginateURL on one {url, body}: what it pushes, in
\* order, and the errors it emits.  It calls next() in every case but the loop
\* that never ends.
PaginatePushesLastFirst(o, obj) ==
  IF InvalidResults(obj.body) THEN <<>>
  ELSE IF obj.body.count = 1 THEN <<obj.url>>
  ELSE [i \in 1..NumRequests(o, obj.body) |->
          PageUrl(o, obj, NumRequests(o, obj.body) - i)]

PaginatePushesUnchecked(o, obj) ==
  IF obj.body.count = 1 THEN <<obj.url>>
  ELSE [i \in 1..NumRequests(o, obj.body) |-> PageUrl(o, obj, i - 1)]

\* The transform without the branch for a count of 1.
PaginatePushesNoSingleton(o, obj) ==
  IF InvalidResults(obj.body) THEN <<>>
  ELSE [i \in 1..NumRequests(o, obj.body) |-> PageUrl(o, obj, i - 1)]

PaginatePushes(o, obj) ==
  IF InvalidResults(obj.body) THEN <<>>
  ELSE IF obj.body.count = 1 THEN <<obj.url>>
  ELSE [i \in 1..NumRequests(o, obj.body) |-> PageUrl(o, obj, i - 1)]

PaginateErrors(o, obj) ==
  IF InvalidResults(obj.body) THEN <<Error("invalid", obj.url, 0)>> ELSE <<>>

(***************************************************************************)
(* Retrying Fetcher.                                                       *)
(***************************************************************************)

\* The condition with every 2xx status taken for a success.
IsRetryableNon2xx(r) ==
  \/ r.err
  \/ ~r.res
  \/ r.statusCode \notin 200..299
  \/ r.body.empty
  \/ (r.body.esr /\ r.body.ERROR)
  \/ r.body.unable
  \/ r.body.error

\* The condition of gotData under which the request is issued again.
IsRetryable(r) ==
  \/ r.err
  \/ ~r.res
  \/ r.statusCode # 200
  \/ r.body.empty
  \/ (r.body.esr /\ r.body.ERROR)
  \/ r.body.unable
  \/ r.body.error

\* A response whose body was decoded: HTTP 200 with a body.
Decoded(r) == ~r.err /\ r.res /\ r.statusCode = 200 /\ ~r.body.empty

\* How gotData treats a response, and whether it is a decoded search response
\* without esearchresult, webenv or count.
Classify(r) ==
  IF IsRetryable(r)
  THEN IF Decoded(r) /\ InvalidResults(r.body) THEN "failInvalid" ELSE "fail"
  ELSE IF InvalidResults(r.body) THEN "okInvalid" ELSE "ok"

\* No response has arrived.
NoResponse == Response(FALSE, FALSE, 0, NoBody)

\* A requestStream stage.
\*   queue  the URLs written and not yet handed to transform
\*   cur    the URL transform is working on (obj)
\*   pc     idle | inflight (request out) | retryTimer (setTimeout(get)) |
\*          nextTimer (setTimeout(next))
\*   tries  self.tries; 0 stands for undefined
\* and, for the URL last handed to transform: the requests issued, the failed
\* responses received, the results pushed, the errors emitted, the calls of
\* next, the body of the successful response, the result pushed, the requests
\* issued and results pushed after MAXTRIES failures, and the class of the
\* last response (Classify).
\*   resp   the response that has arrived for the request (respond)
RsInit ==
  [queue |-> <<>>, cur |-> NoUrl, pc |-> "idle", tries |-> 0,
   nreq |-> 0, nfail |-> 0, npush |-> 0, nerr |-> 0, nnext |-> 0,
   body |-> NoBody, result |-> NoResult, lateReq |-> 0, latePush |-> 0,
   last |-> "", resp |-> NoResponse]

\* get() raising the error one failure early.
getErrorsFromCap(st, url) ==
  IF st.tries >= MAXTRIES THEN <<Error("retries", url, st.tries)>> ELSE <<>>

\* function get(): the errors it emits for stage record st.  There is no return
\* after the emit: the request is issued whatever self.tries is.
getErrors(st, url) ==
  IF st.tries > MAXTRIES THEN <<Error("retries", url, st.tries)>> ELSE <<>>

\* The stage after get() ran for url: one more request is out.  lateReq counts
\* the requests issued once MAXTRIES attempts have failed.
getIssue(st) ==
  [st EXCEPT !.pc = "inflight", !.nreq = @ + 1,
             !.lateReq = IF st.nfail >= MAXTRIES THEN @ + 1 ELSE @]

\* var result = returnURL ? {url: obj, body: body} : body
MakeResult(returnURL, url, body) ==
  IF returnURL THEN Result(TRUE, url, body) ELSE Result(FALSE, NoUrl, body)

(***************************************************************************)
(* What the upstream service may answer.                                   *)
(***************************************************************************)

Terms == { <<"a">>, <<"'", "a", " ", "b", "'">> }

IdsUpTo(n) == [i \in 1..n |-> IF i = 1 THEN "u1" ELSE IF i = 2 THEN "u2" ELSE "u3"]

MinOf(a, b) == IF a < b THEN a ELSE b

\* The id of the k-th record of a result set (k counted from 1).
IdAt(k) ==
  IF k \in 1..8 THEN <<"u1", "u2", "u3", "u4", "u5", "u6", "u7", "u8">>[k] ELSE "u9"

\* The ids of a page: n records from offset retstart on.
PageIds(retstart, n) == [i \in 1..n |-> IdAt(retstart + i)]

\* A well-formed esearch body: session token, count and the first ids.
SearchBody(count) ==
  [NoBody EXCEPT !.empty = FALSE, !.esr = TRUE, !.webenv = "W1",
                 !.count = count, !.idlist = IdsUpTo(MinOf(count, 2))]

\* Bodies that pass gotData and lack what the paginator needs.
MalformedBodies ==
  { [NoBody EXCEPT !.empty = FALSE],
    [NoBody EXCEPT !.empty = FALSE, !.esr = TRUE, !.count = 2],
    [NoBody EXCEPT !.empty = FALSE, !.esr = TRUE, !.webenv = "Fake Results"] }

\* The responses gotData classifies as failures, one of each kind; the last is
\* NCBI's answer to a query it rejects: HTTP 200, esearchresult with ERROR only.
FailResponses ==
  { Response(TRUE, FALSE, 0, NoBody),
    Response(FALSE, FALSE, 0, NoBody),
    Response(FALSE, TRUE, 500, SearchBody(2)),
    Response(FALSE, TRUE, 200, NoBody),
    Response(FALSE, TRUE, 200, [NoBody EXCEPT !.empty = FALSE, !.unable = TRUE]),
    Response(FALSE, TRUE, 200, [NoBody EXCEPT !.empty = FALSE, !.error = TRUE]),
    Response(FALSE, TRUE, 200, [SearchBody(2) EXCEPT !.ERROR = TRUE]),
    Response(FALSE, TRUE, 200, [NoBody EXCEPT !.empty = FALSE, !.esr = TRUE, !.ERROR = TRUE]) }

CountValues == (0..MaxCount) \cup {RETURNMAX + 1, 2 * RETURNMAX + 1}

PipeCounts == 0..PipeCount

Ok(body) == Response(FALSE, TRUE, 200, body)

\* The links of an elink response for the pair of url.
LinkBodies(url) ==
  LET name == url.dbfrom \o "_" \o url.db
      xmls == { LinkXml(TRUE, FALSE, FALSE, <<>>),
                LinkXml(FALSE, FALSE, FALSE, <<>>),
                LinkXml(FALSE, TRUE, FALSE, <<>>),
                LinkXml(FALSE, TRUE, TRUE, << [LinkName |-> name, Ids |-> <<"d1", "d2">>] >>),
                LinkXml(FALSE, TRUE, TRUE, << [LinkName |-> name \o "_all", Ids |-> <<"d3">>] >>),
                LinkXml(FALSE, TRUE, TRUE, << [LinkName |-> name \o "_all", Ids |-> <<"d3">>],
                                              [LinkName |-> name, Ids |-> <<"d1">>] >>) }
  IN  { [NoBody EXCEPT !.empty = FALSE, !.link = x] : x \in xmls }

\* The successful bodies the service may give for url.
OkBodies(url) ==
  CASE url.ep = "esearch" /\ url.webenv = "" ->
         { SearchBody(c) : c \in IF call.built = "requestStream" THEN {1, 2} ELSE PipeCounts }
         \cup MalformedBodies
    [] url.ep = "esearch" /\ url.webenv # "" ->
         { [SearchBody(n) EXCEPT !.idlist = PageIds(url.retstart, MinOf(n, url.retmax))] :
             n \in 0..2 }
    [] url.ep \in {"esummary", "efetch"} ->
         { [NoBody EXCEPT !.empty = FALSE, !.uids = url.id] }
    [] url.ep = "elink" -> LinkBodies(url)
    [] OTHER -> {}

Responses(url) == FailResponses \cup { Ok(b) : b \in OkBodies(url) }

(***************************************************************************)
(* Summary / fetch URL builders, normalizer, link-object builder.          *)
(***************************************************************************)

\* Chunks that take one id too many: the first id of the next chunk as well.
IdChunksOverlap(idlist) ==
  [k \in 1..CeilDiv(Len(idlist), idsChunkLen) |->
     SubSeq(idlist, (k - 1) * idsChunkLen + 1, MinOf(k * idsChunkLen + 1, Len(idlist)))]

\* idlist.slice(i, i + idsChunkLen) for i = 0, idsChunkLen, ...
IdChunks(idlist) ==
  [k \in 1..CeilDiv(Len(idlist), idsChunkLen) |->
     SubSeq(idlist, (k - 1) * idsChunkLen + 1, MinOf(k * idsChunkLen, Len(idlist)))]

\* createAPIDataUrl: one esummary URL per chunk of ids, none for an empty list.
createAPIDataUrl(obj) ==
  [k \in 1..Len(IdChunks(obj.body.idlist)) |->
     Url("esummary", urlQueryDb(obj.url), "", <<>>, "", Unset, Unset, IdChunks(obj.body.idlist)[k])]

\* createAPIFetchUrl: the same with the efetch endpoint.
createAPIFetchUrl(obj) ==
  [k \in 1..Len(IdChunks(obj.body.idlist)) |->
     Url("efetch", urlQueryDb(obj.url), "", <<>>, "", Unset, Unset, IdChunks(obj.body.idlist)[k])]

\* obj.body.esearchresult.idlist with no esearchresult: a TypeError is thrown
\* out of the request callback.
DataUrlThrows(obj) == ~obj.body.esr

\* fetchByID after its requestStream: body.result without uids, split into one
\* record per uid.
SummaryRecords(obj) == [i \in 1..Len(obj.body.uids) |-> [uid |-> obj.body.uids[i]]]

\* if (srcDB === 'tax') { srcDB = 'taxonomy' }
LinkSrcDB(srcDB) == IF srcDB = "tax" THEN "taxonomy" ELSE srcDB

createAPILinkURL(srcDB, destDB, srcUID) ==
  Url("elink", destDB, LinkSrcDB(srcDB), <<>>, "", Unset, Unset, <<srcUID>>)

\* The sub-lists getMatch accepts: link.LinkName[0] === query.dbfrom + '_' + query.db
LinkMatches(obj) ==
  SelectSeq(obj.body.link.LinkSetDb,
            LAMBDA l : l.LinkName = obj.url.dbfrom \o "_" \o obj.url.db)

\* result after LinkSetDb.forEach(getMatch): destUIDs is set by every match,
\* the last one stays; without a match the field is never set.
LinkResult(obj) ==
  [srcDB |-> obj.url.dbfrom, destDB |-> obj.url.db, srcUID |-> obj.url.id[1],
   hasDestUIDs |-> LinkMatches(obj) # <<>>,
   destUIDs |-> IF LinkMatches(obj) = <<>> THEN <<>>
                ELSE LinkMatches(obj)[Len(LinkMatches(obj))].Ids]

\* gotParsed: what createLinkObj pushes for one {url, body}.
LinkPushesPerDestUID(obj) ==
  IF obj.body.link.parseErr \/ ~obj.body.link.hasLinkSetDb THEN <<>>
  ELSE [i \in 1..Len(LinkResult(obj).destUIDs) |->
          [LinkResult(obj) EXCEPT !.destUIDs = <<LinkResult(obj).destUIDs[i]>>]]

LinkPushes(obj) ==
  IF obj.body.link.parseErr \/ ~obj.body.link.hasLinkSetDb THEN <<>>
  ELSE <<LinkResult(obj)>>

LinkErrors(obj) ==
  IF obj.body.link.parseErr THEN <<Error("xml", obj.url, 0)>> ELSE <<>>

\* data.eLinkResult.LinkSet[0] with no LinkSet: a TypeError is thrown.
LinkThrows(obj) == ~obj.body.link.parseErr /\ ~obj.body.link.hasLinkSet

(***************************************************************************)
(* Streams.                                                                *)
(***************************************************************************)

Stages == 1..3

\* The entry points that join their stages with pumpify.obj.
Pumpified == {"search", "fetch", "link", "urls", "download"}

NoCall ==
  [name |-> "none", db |-> "", destDB |-> "", thrown |-> "", built |-> "none",
   returnURL |-> TRUE, tracked |-> FALSE]

NoOpts == [db |-> "", limit |-> Unset, throughput |-> Unset]

\* A synchronous transform's record of its last input.
XfInit == [obj |-> NoResult, pushed |-> <<>>, errors |-> <<>>, nnext |-> 0]

OutInit == [records |-> <<>>, errors |-> <<>>, ended |-> FALSE, destroyed |-> FALSE]

InpInit == [written |-> 0, ended |-> FALSE]

\* No expand or plink transform was created.
\*   fn        none | expand | plink
\*   property  opts.property;  dest: opts.destProperty, or destDB + 'id' for plink
\*   db        the database searched (expand) or the source database (plink)
\*   busy      transform was called and has not called next yet
\*   given     the record as it was written;  obj: the same object as it is now
\*   array     async.map is collecting the data of the inner searches
\*   inner     the inner search or link streams of the record: what each was
\*             asked, the data events it has emitted, the first data it gave
\*   pushed    the records pushed, as they were when pushed
\*   nnext     the calls of next for the record
XpInit ==
  [fn |-> "none", property |-> "", dest |-> "", db |-> "", busy |-> FALSE,
   given |-> NoRecord, obj |-> NoRecord, array |-> FALSE, inner |-> <<>>,
   pushed |-> <<>>, nnext |-> 0]

\* The body of a directory listing: missing or empty, or a page with links.
DirBody(empty, hrefs) == [empty |-> empty, hrefs |-> hrefs]

\* The assembly branch of createFTPURL.
\*   obj     the record transform was last given: its uid and whether it has
\*           meta.FtpSites
\*   pc      idle | inflight (the listing was requested) | done
\*   resp    the response gotFTPDir was called with
\*   maps    the URL maps pushed;  events: the names of the events emitted
\*   nnext   the calls of next for the record
FtpInit ==
  [obj |-> [uid |-> "", hasFtpSites |-> FALSE], pc |-> "idle",
   resp |-> Response(FALSE, FALSE, 0, DirBody(TRUE, {})),
   maps |-> <<>>, events |-> <<>>, nnext |-> 0]

\* The urls and download stages.
\*   fn       none | urls | download;  db: opts.db;  pretty: opts.pretty
\*   given    the record createFTPURL was last given;  pairs: the {url, uid} it
\*            has pushed;  nnext: its calls of next for the record
\*   run      the calls of ncbi.download so far (the files stay on disk)
\*   queue    the pairs pushed to the download stage and not yet taken
\*   cur      the pair download is working on;  taken: the pairs taken in this run
\*   pc       idle | mkdir | nugget | transfer | done | failed | stat | destroyed
\*   dirErr   mkdirp gave an error for the folder of cur
\*   before   the file at the path of cur when cur was taken
\*   log      the entries pushed in this run, each with the number of its file
\*   started  the numbers of the files whose bytes were requested in this run
\*   nprogress  the progress events of the transfer of cur
\*   files    what is on disk: the files, each with its path, whether it is
\*            whole, and the URL its bytes came from
\*   ftp      the assembly branch of createFTPURL (FtpInit)
DlInit ==
  [fn |-> "none", db |-> "", pretty |-> FALSE, given |-> [uid |-> "", runs |-> <<>>],
   pairs |-> <<>>,
   nnext |-> 0, run |-> 0, queue |-> <<>>, cur |-> [url |-> <<>>, uid |-> ""],
   taken |-> 0, pc |-> "idle", dirErr |-> FALSE, before |-> <<>>, log |-> <<>>,
   started |-> <<>>, nprogress |-> 0, files |-> {}, ftp |-> FtpInit]

\* The command-line program: not started.  printed is what console.error
\* wrote, code the exit code of the process once it has exited.
CliInit == [started |-> FALSE, printed |-> <<>>, exited |-> FALSE, code |-> Unset]

\* this.emit('error', e) on a stage, for each e of errs.  Inside pumpify.obj an
\* error of any stage destroys the whole pipeline: the error surfaces on the
\* output stream, which then emits neither data nor 'end'.
EmitErrorsPiped(o, errs) == [o EXCEPT !.errors = @ \o errs]

EmitErrors(o, errs) ==
  [o EXCEPT !.errors = @ \o errs,
            !.destroyed = @ \/ (errs # <<>> /\ call.built \in Pumpified)]

\* self.push(result) of requestStream stage s, st1 being the stage after the push.
\* The transform piped to the stage runs inside the push.  Once the pipeline is
\* destroyed its stages are unpiped and the result goes nowhere.
PushStandalone(s, st1) ==
  /\ rs' = [rs EXCEPT ![s] = st1]
  /\ UNCHANGED <<pg, lk, out, proc>>

PushToPaginator(s, st1, obj) ==
  IF PaginateLoops(opts, obj.body)
  THEN /\ proc' = "looping"
       /\ rs' = [rs EXCEPT ![s] = st1]
       /\ pg' = [XfInit EXCEPT !.obj = obj]
       /\ UNCHANGED <<lk, out>>
  ELSE /\ pg' = [obj |-> obj, pushed |-> PaginatePushes(opts, obj),
                 errors |-> PaginateErrors(opts, obj), nnext |-> 1]
       /\ rs' = [rs EXCEPT ![s] = st1, ![s + 1].queue = @ \o PaginatePushes(opts, obj)]
       /\ out' = EmitErrors(out, PaginateErrors(opts, obj))
       /\ UNCHANGED <<lk, proc>>

PushToDataUrl(s, st1, obj) ==
  IF DataUrlThrows(obj)
  THEN /\ proc' = "crashed"
       /\ rs' = [rs EXCEPT ![s] = st1]
       /\ UNCHANGED <<pg, lk, out>>
  ELSE /\ rs' = [rs EXCEPT ![s] = st1,
                           ![s + 1].queue = @ \o (IF call.built = "fetch"
                                                  THEN createAPIFetchUrl(obj)
                                                  ELSE createAPIDataUrl(obj))]
       /\ UNCHANGED <<pg, lk, out, proc>>

PushToOutput(s, st1, obj) ==
  /\ rs' = [rs EXCEPT ![s] = st1]
  /\ out' = [out EXCEPT !.records = @ \o SummaryRecords(obj)]
  /\ UNCHANGED <<pg, lk, proc>>

PushToLinkObj(s, st1, obj) ==
  IF LinkThrows(obj)
  THEN /\ proc' = "crashed"
       /\ rs' = [rs EXCEPT ![s] = st1]
       /\ lk' = [XfInit EXCEPT !.obj = obj]
       /\ UNCHANGED <<pg, out>>
  ELSE /\ lk' = [obj |-> obj, pushed |-> LinkPushes(obj),
                 errors |-> LinkErrors(obj), nnext |-> 1]
       /\ rs' = [rs EXCEPT ![s] = st1]
       /\ out' = EmitErrors([out EXCEPT !.records = @ \o LinkPushes(obj)], LinkErrors(obj))
       /\ UNCHANGED <<pg, proc>>

Push(s, st1, obj) ==
  CASE call.built = "requestStream" -> PushStandalone(s, st1)
    [] out.destroyed -> PushStandalone(s, st1)
    [] call.built = "link" -> PushToLinkObj(s, st1, obj)
    [] s = 1 -> PushToPaginator(s, st1, obj)
    [] s = 2 -> PushToDataUrl(s, st1, obj)
    [] OTHER -> PushToOutput(s, st1, obj)

\* The failed responses one URL may get: the upstream is not modelled as
\* failing without end.
FailBudget == IF call.built = "requestStream" THEN MaxFails ELSE PipeFails

(***************************************************************************)
(* requestStream: transform, gotData and the two timers.                   *)
(***************************************************************************)

\* transform(obj, enc, next): get() runs first, with self.tries as the stage
\* left it, and only then self.tries = 1.
requestStreamTransform(s) ==
  LET st   == rs[s]
      url  == Head(st.queue)
      st0  == [st EXCEPT !.queue = Tail(@), !.cur = url, !.nreq = 0, !.nfail = 0,
                         !.npush = 0, !.nnext = 0, !.body = NoBody,
                         !.result = NoResult, !.lateReq = 0, !.latePush = 0,
                         !.last = "", !.nerr = Len(getErrors(st, url))]
  IN  /\ proc = "running"
      /\ st.pc = "idle"
      /\ st.queue # <<>>
      /\ rs' = [rs EXCEPT ![s] = [getIssue(st0) EXCEPT !.tries = 1]]
      /\ out' = EmitErrors(out, getErrors(st, url))
      /\ UNCHANGED <<call, opts, pg, lk, inp, proc, xp, dl, cli>>

\* gotData(err, res, body), when the service fails a URL at most budget times.
gotDataWithin(s, resp, budget) ==
  LET st == rs[s]
      result == MakeResult(call.returnURL, st.cur, resp.body)
  IN  /\ proc = "running"
      /\ st.pc = "inflight"
      /\ IF IsRetryable(resp)
         THEN /\ st.nfail < budget
              /\ rs' = [rs EXCEPT ![s] = [st EXCEPT !.tries = @ + 1, !.nfail = @ + 1,
                                                    !.pc = "retryTimer",
                                                    !.last = Classify(resp)]]
              /\ UNCHANGED <<pg, lk, out, proc>>
         ELSE Push(s, [st EXCEPT !.pc = "nextTimer", !.npush = @ + 1,
                                 !.body = resp.body, !.result = result,
                                 !.last = Classify(resp),
                                 !.latePush = IF st.nfail >= MAXTRIES THEN @ + 1 ELSE @],
                   result)
      /\ UNCHANGED <<call, opts, inp, xp, dl, cli>>

\* gotData(err, res, body)
gotData(s, resp) == gotDataWithin(s, resp, FailBudget)

\* The response to the request of stage s arrives: request has the arguments
\* (err, res, body) of its callback.
respond(s, resp) ==
  /\ proc = "running"
  /\ rs[s].pc = "inflight"
  /\ rs[s].resp # resp
  /\ rs' = [rs EXCEPT ![s].resp = resp]
  /\ UNCHANGED <<call, opts, pg, lk, out, inp, proc, xp, dl, cli>>

\* request calls gotData with the response that arrived.
gotResponse(s) ==
  /\ rs[s].resp # NoResponse
  /\ gotData(s, rs[s].resp)

\* setTimeout(get, interval) fires.
retryGet(s) ==
  LET st == rs[s]
  IN  /\ proc = "running"
      /\ st.pc = "retryTimer"
      /\ rs' = [rs EXCEPT ![s] = getIssue([st EXCEPT !.nerr = @ + Len(getErrors(st, st.cur))])]
      /\ out' = EmitErrors(out, getErrors(st, st.cur))
      /\ UNCHANGED <<call, opts, pg, lk, inp, proc, xp, dl, cli>>

\* setTimeout(next, interval) fires.
nextTimer(s) ==
  /\ proc = "running"
  /\ rs[s].pc = "nextTimer"
  /\ rs' = [rs EXCEPT ![s].pc = "idle", ![s].nnext = @ + 1]
  /\ UNCHANGED <<call, opts, pg, lk, out, inp, proc, xp, dl, cli>>

(***************************************************************************)
(* Entry points and the input side.                                        *)
(***************************************************************************)

\* Object.keys(validDbs.dbs).indexOf(opts.db) < 0 is false
ValidDbOrAlias(db) == db \in dbs \cup {"tax"}

ValidDb(db) == db \in dbs

\* Names that are no key of the table; 'tax' is the alias expand and link accept.
InvalidNames == {"invalid", "tax", ""}

DbArgs == dbs \cup InvalidNames

UIDs == {"35533", "53577"}

\* A call that threw: nothing was built.
Thrown(name, db, destDB, what) ==
  [NoCall EXCEPT !.name = name, !.db = db, !.destDB = destDB, !.tracked = TRUE,
                 !.thrown = what]

Built(name, db, destDB) ==
  [NoCall EXCEPT !.name = name, !.db = db, !.destDB = destDB, !.tracked = TRUE,
                 !.built = name]

\* if (opts.term) { stream.write(opts.term); stream.end() }: the first stage
\* turns the term into the search URL and hands it to the first requestStream.
WriteAndEnd(db, term) ==
  IF term # <<>>
  THEN /\ rs' = [rs EXCEPT ![1].queue = <<createAPISearchUrl(db, term)>>]
       /\ inp' = [written |-> 1, ended |-> TRUE]
  ELSE UNCHANGED <<rs, inp>>

\* ncbi.search(opts): term <<>> stands for no term.
search(db, term, limit, throughput) ==
  /\ proc = "running"
  /\ call.name = "none"
  /\ IF ~ValidDb(db)
     THEN /\ call' = Thrown("search", db, "", "InvalidDbError")
          /\ UNCHANGED <<opts, rs, inp>>
     ELSE /\ call' = Built("search", db, "")
          /\ opts' = [db |-> db, limit |-> limit, throughput |-> throughput]
          /\ WriteAndEnd(db, term)
  /\ UNCHANGED <<pg, lk, out, proc, xp, dl, cli>>

\* ncbi.fetch(opts): the pipeline is built whatever opts.db is.
fetch(db, term, limit, throughput) ==
  /\ proc = "running"
  /\ call.name = "none"
  /\ call' = Built("fetch", db, "")
  /\ opts' = [db |-> db, limit |-> limit, throughput |-> throughput]
  /\ WriteAndEnd(db, term)
  /\ UNCHANGED <<pg, lk, out, proc, xp, dl, cli>>

\* ncbi.link(srcDB, destDB, srcUID): "" stands for no srcUID.
link(srcDB, destDB, srcUID) ==
  /\ proc = "running"
  /\ call.name = "none"
  /\ call' = Built("link", srcDB, destDB)
  /\ IF srcUID # ""
     THEN /\ rs' = [rs EXCEPT ![1].queue = <<createAPILinkURL(srcDB, destDB, srcUID)>>]
          /\ inp' = [written |-> 1, ended |-> TRUE]
     ELSE UNCHANGED <<rs, inp>>
  /\ UNCHANGED <<opts, pg, lk, out, proc, xp, dl, cli>>

\* stream.write(term) on a search or fetch stream, or a URL written to a
\* requestStream used alone.
writeTerm(term) ==
  /\ proc = "running"
  /\ call.built \in {"search", "fetch", "requestStream"}
  /\ ~inp.ended /\ ~out.destroyed
  /\ inp.written < MaxUrls
  /\ rs' = [rs EXCEPT ![1].queue = Append(@, createAPISearchUrl(opts.db, term))]
  /\ inp' = [inp EXCEPT !.written = @ + 1]
  /\ UNCHANGED <<call, opts, pg, lk, out, proc, xp, dl, cli>>

\* stream.write(srcUID) on a link stream.
writeUID(uid) ==
  /\ proc = "running"
  /\ call.built = "link"
  /\ ~inp.ended /\ ~out.destroyed
  /\ inp.written < MaxUrls
  /\ rs' = [rs EXCEPT ![1].queue = Append(@, createAPILinkURL(call.db, call.destDB, uid))]
  /\ inp' = [inp EXCEPT !.written = @ + 1]
  /\ UNCHANGED <<call, opts, pg, lk, out, proc, xp, dl, cli>>

\* stream.end()
endInput ==
  /\ proc = "running"
  /\ call.built # "none"
  /\ ~inp.ended
  /\ inp' = [inp EXCEPT !.ended = TRUE]
  /\ UNCHANGED <<call, opts, rs, pg, lk, out, proc, xp, dl, cli>>

\* through.obj(transform): an object stream buffers up to 16 objects before
\* push() returns false to ask the producer to wait.
highWaterMark == 16

\* stream.destroy() by whoever reads the output stream: pumpify destroys every
\* stage.  A through2 stage that is destroyed emits 'close'; nothing in
\* requestStream looks at it.
destroyOutput ==
  /\ proc = "running"
  /\ call.built \in Pumpified
  /\ ~out.destroyed /\ ~out.ended
  /\ out' = [out EXCEPT !.destroyed = TRUE]
  /\ UNCHANGED <<call, opts, rs, pg, lk, inp, proc, xp, dl, cli>>

\* Every stage has flushed: the output stream emits 'end'.
emitEnd ==
  /\ proc = "running"
  /\ call.built # "none"
  /\ inp.ended
  /\ \A s \in Stages : rs[s].pc = "idle" /\ rs[s].queue = <<>>
  /\ ~out.destroyed /\ ~out.ended
  /\ out' = [out EXCEPT !.ended = TRUE]
  /\ UNCHANGED <<call, opts, rs, pg, lk, inp, proc, xp, dl, cli>>

\* A page response written to a createAPIDataUrl() or createAPIFetchUrl()
\* stream used alone; pg keeps what the transform did with it.
dataUrlTransform(obj) ==
  /\ proc = "running"
  /\ call.built \in {"dataUrl", "fetchUrl"}
  /\ inp.written < MaxUrls
  /\ inp' = [inp EXCEPT !.written = @ + 1]
  /\ IF DataUrlThrows(obj)
     THEN /\ proc' = "crashed"
          /\ pg' = [XfInit EXCEPT !.obj = obj]
     ELSE /\ pg' = [obj |-> obj,
                    pushed |-> IF call.built = "fetchUrl" THEN createAPIFetchUrl(obj)
                               ELSE createAPIDataUrl(obj),
                    errors |-> <<>>, nnext |-> 1]
          /\ UNCHANGED proc
  /\ UNCHANGED <<call, opts, rs, lk, out, xp, dl, cli>>

\* A search response written to a createAPIPaginateURL(opts) stream used alone.
paginateTransform(obj) ==
  /\ proc = "running"
  /\ call.built = "paginate"
  /\ inp.written < MaxUrls
  /\ inp' = [inp EXCEPT !.written = @ + 1]
  /\ IF PaginateLoops(opts, obj.body)
     THEN /\ proc' = "looping"
          /\ pg' = [XfInit EXCEPT !.obj = obj]
          /\ UNCHANGED out
     ELSE /\ pg' = [obj |-> obj, pushed |-> PaginatePushes(opts, obj),
                    errors |-> PaginateErrors(opts, obj), nnext |-> 1]
          /\ out' = EmitErrors(out, PaginateErrors(opts, obj))
          /\ UNCHANGED proc
  /\ UNCHANGED <<call, opts, rs, lk, xp, dl, cli>>

(***************************************************************************)
(* Cross-Reference Resolver: expand and plink.                             *)
(***************************************************************************)

\* tool.getValue(obj, field): undefined for a field the record lacks.
getValue(obj, field) == IF field \in DOMAIN obj THEN obj[field] ELSE Undefined

\* obj[field] = val
SetField(obj, field, val) ==
  [f \in DOMAIN obj \cup {field} |-> IF f = field THEN val ELSE obj[f]]

\* Array.prototype.toString: the elements joined by commas, as tokens.
RECURSIVE JoinIds(_)
JoinIds(v) ==
  IF Len(v) <= 1 THEN v ELSE <<Head(v), ",">> \o JoinIds(Tail(v))

\* var db = opts.property.split('.').pop(); if (db === 'tax') { db = 'taxonomy' }
ExpandDb(property) == IF property = "tax" THEN "taxonomy" ELSE property

\* if (db === 'taxonomy') { ids = ids + '[uid]' }: the sum is a string, also
\* when ids was an array.
ExpandIds(db, ids) ==
  IF db = "taxonomy" THEN Value(FALSE, <<JoinIds(ids.v) \o <<"[uid]">>>>)
  ELSE IF ids.list THEN Value(TRUE, [i \in 1..Len(ids.v) |-> <<ids.v[i]>>])
  ELSE Value(FALSE, <<ids.v>>)

\* One inner stream: ncbi.search(db) with term written to it, or
\* ncbi.link(srcDB, destDB, id).
Inner(db, term, url) ==
  [db |-> db, term |-> term, url |-> url, ndata |-> 0, answered |-> FALSE,
   data |-> NoRecord]

\* if (Array.isArray(ids)) { async.map(ids, search, gotData) }
\* else { search(ids, gotData) }
ExpandSearches(db, ids) ==
  [i \in 1..Len(ExpandIds(db, ids).v) |-> Inner(db, ExpandIds(db, ids).v[i], NoUrl)]

\* ncbi.expand(property, destProperty): "" stands for no destProperty.
expand(property, destProperty) ==
  /\ proc = "running"
  /\ call.name = "none"
  /\ call' = [NoCall EXCEPT !.name = "expand", !.built = "expand", !.tracked = TRUE]
  /\ xp' = [XpInit EXCEPT !.fn = "expand", !.property = property,
                          !.dest = IF destProperty = "" THEN property ELSE destProperty,
                          !.db = ExpandDb(property)]
  /\ UNCHANGED <<opts, rs, pg, lk, out, inp, proc, dl, cli>>

\* ncbi.plink(property, destDB)
plink(property, destDB) ==
  /\ proc = "running"
  /\ call.name = "none"
  /\ call' = [NoCall EXCEPT !.name = "plink", !.built = "plink", !.destDB = destDB,
                            !.tracked = TRUE]
  /\ xp' = [XpInit EXCEPT !.fn = "plink", !.property = property,
                          !.dest = destDB \o "id", !.db = property]
  /\ UNCHANGED <<opts, rs, pg, lk, out, inp, proc, dl, cli>>

\* if (!ids) { self.push(obj); return next() }: the record goes through.
PassThroughTouched(x, obj) ==
  [x EXCEPT !.given = obj, !.obj = SetField(obj, x.dest, Value(TRUE, <<>>)),
            !.array = FALSE, !.inner = <<>>,
            !.pushed = Append(@, SetField(obj, x.dest, Value(TRUE, <<>>))),
            !.nnext = 1, !.busy = FALSE]

PassThrough(x, obj) ==
  [x EXCEPT !.given = obj, !.obj = obj, !.array = FALSE, !.inner = <<>>,
            !.pushed = Append(@, obj), !.nnext = 1, !.busy = FALSE]

\* The transform of expand on one record.  ncbi.search(db) throws for a db that
\* is no key of the table.  The inner streams of the record before are not
\* followed any further.
expandTransform(obj) ==
  LET ids == getValue(obj, xp.property \o "id")
  IN  /\ proc = "running"
      /\ xp.fn = "expand"
      /\ ~xp.busy
      /\ inp.written < MaxUrls
      /\ inp' = [inp EXCEPT !.written = @ + 1]
      /\ IF ids = Undefined
         THEN xp' = PassThrough(xp, obj) /\ UNCHANGED proc
         ELSE /\ xp' = [xp EXCEPT !.given = obj, !.obj = obj, !.busy = TRUE,
                                  !.array = ExpandIds(xp.db, ids).list,
                                  !.inner = ExpandSearches(xp.db, ids),
                                  !.nnext = 0]
              /\ proc' = IF ValidDb(xp.db) THEN "running" ELSE "crashed"
      /\ UNCHANGED <<call, opts, rs, pg, lk, out, dl, cli>>

\* The records an inner search may give.
SearchRecords == { [uid |-> Value(FALSE, <<"t1">>)], [uid |-> Value(FALSE, <<"t2">>)] }

\* function gotData (err, data): obj[opts.destProperty] = data; self.push(obj); next()
expandGotData(x, data) ==
  [x EXCEPT !.obj = SetField(x.obj, x.dest, data),
            !.pushed = Append(@, SetField(x.obj, x.dest, data)),
            !.nnext = @ + 1, !.busy = FALSE]

\* async.map taking the first callback for the last.
AnyCalledBack(inner) == \E i \in 1..Len(inner) : inner[i].ndata >= 1

\* async.map(ids, search, gotData) calls gotData once every search has called
\* back.
AllCalledBack(inner) == \A i \in 1..Len(inner) : inner[i].ndata >= 1

\* stream.on('data', function (data) { cb(null, data) }) of inner search k.
\* Without async.map cb is gotData.  With it the data is stored at index k and
\* gotData runs once every search has called back; a second call of the same
\* callback makes async throw.
searchData(k, rec) ==
  LET in1 == [xp.inner EXCEPT ![k].ndata = @ + 1,
                             ![k].data = IF xp.inner[k].ndata = 0 THEN rec ELSE @]
      x1  == [xp EXCEPT !.inner = in1]
  IN  /\ proc = "running"
      /\ xp.fn = "expand"
      /\ k \in 1..Len(xp.inner)
      /\ ~xp.inner[k].answered
      /\ xp.inner[k].ndata < MaxRecords
      /\ IF ~xp.array
         THEN xp' = expandGotData(x1, Value(FALSE, <<rec>>)) /\ UNCHANGED proc
         ELSE IF xp.inner[k].ndata >= 1
         THEN xp' = x1 /\ proc' = "crashed"
         ELSE IF AllCalledBack(in1)
         THEN /\ xp' = expandGotData(x1, Value(TRUE, [i \in 1..Len(in1) |-> in1[i].data]))
              /\ UNCHANGED proc
         ELSE xp' = x1 /\ UNCHANGED proc
      /\ UNCHANGED <<call, opts, rs, pg, lk, out, inp, dl, cli>>

\* Inner search k was answered with a count of 0: its paginator pushes no page,
\* the stream gives no 'data', and no 'end' either, as the term was written to
\* it and its input was never ended.  Neither cb nor next is called.
searchEmpty(k) ==
  /\ proc = "running"
  /\ xp.fn = "expand"
  /\ xp.busy
  /\ k \in 1..Len(xp.inner)
  /\ ~xp.inner[k].answered
  /\ xp.inner[k].ndata = 0
  /\ xp' = [xp EXCEPT !.inner = [@ EXCEPT ![k].answered = TRUE]]
  /\ UNCHANGED <<call, opts, rs, pg, lk, out, inp, proc, dl, cli>>

\* The transform of plink on one record.
plinkTransform(obj) ==
  LET id == getValue(obj, xp.property \o "id")
      o1 == IF getValue(obj, xp.dest) \in {Undefined, Value(FALSE, <<"">>)}
            THEN SetField(obj, xp.dest, Value(TRUE, <<>>)) ELSE obj
  IN  /\ proc = "running"
      /\ xp.fn = "plink"
      /\ ~xp.busy
      /\ inp.written < MaxUrls
      /\ inp' = [inp EXCEPT !.written = @ + 1]
      /\ IF id = Undefined
         THEN xp' = PassThrough(xp, obj)
         ELSE xp' = [xp EXCEPT !.given = obj, !.obj = o1, !.busy = TRUE, !.array = FALSE,
                               !.inner = <<Inner(xp.db, <<>>,
                                                 createAPILinkURL(xp.db, call.destDB,
                                                                  JoinIds(id.v)))>>,
                               !.nnext = 0]
      /\ UNCHANGED <<call, opts, rs, pg, lk, out, proc, dl, cli>>

\* function gotData (data) of plink:
\* if (data.destUIDs) { obj[destProperty] = data.destUIDs }; self.push(obj); next()
plinkGotDataFirstUID(x, data) ==
  LET o1 == IF data.hasDestUIDs
            THEN SetField(x.obj, x.dest, Value(FALSE, <<data.destUIDs[1]>>))
            ELSE x.obj
  IN  [x EXCEPT !.obj = o1, !.pushed = Append(@, o1), !.nnext = @ + 1, !.busy = FALSE,
                !.inner = [@ EXCEPT ![1].ndata = 1, ![1].data = data]]

plinkGotData(x, data) ==
  LET o1 == IF data.hasDestUIDs THEN SetField(x.obj, x.dest, Value(TRUE, data.destUIDs))
            ELSE x.obj
  IN  [x EXCEPT !.obj = o1, !.pushed = Append(@, o1), !.nnext = @ + 1, !.busy = FALSE,
                !.inner = [@ EXCEPT ![1].ndata = 1, ![1].data = data]]

\* The inner link stream got its elink response: createLinkObj runs on it and
\* every result it pushes is a 'data' event for gotData.  An error of the inner
\* stream has no listener and is thrown.
linkData(body) ==
  LET obj == Result(TRUE, xp.inner[1].url, body)
      x1  == [xp EXCEPT !.inner = [@ EXCEPT ![1].answered = TRUE]]
  IN  /\ proc = "running"
      /\ xp.fn = "plink"
      /\ xp.busy
      /\ ~xp.inner[1].answered
      /\ IF LinkThrows(obj) \/ LinkErrors(obj) # <<>>
         THEN xp' = x1 /\ proc' = "crashed"
         ELSE IF LinkPushes(obj) = <<>>
         THEN xp' = x1 /\ UNCHANGED proc
         ELSE xp' = plinkGotData(x1, LinkPushes(obj)[1]) /\ UNCHANGED proc
      /\ UNCHANGED <<call, opts, rs, pg, lk, out, inp, dl, cli>>

(***************************************************************************)
(* URLs: createFTPURL for the sra database.                                *)
(***************************************************************************)

\* acc.slice(0, n)
Slice(acc, n) == SubSeq(acc, 1, MinOf(n, Len(acc)))

SRAROOT == "http://ftp.ncbi.nlm.nih.gov/sra/sra-instant/reads/ByRun/sra/"

\* printSRAURL: runURL, as the sequence of its characters after the fixed base.
runURLNoExtension(acc) ==
  <<SRAROOT>> \o Slice(acc, 3) \o <<"/">> \o Slice(acc, 6) \o <<"/">> \o acc \o <<"/">>
    \o acc

runURL(acc) ==
  <<SRAROOT>> \o Slice(acc, 3) \o <<"/">> \o Slice(acc, 6) \o <<"/">> \o acc \o <<"/">>
    \o acc \o <<".sra">>

\* sraURL: async.eachSeries(runs, printSRAURL, next) pushes one pair per run.
sraURL(obj) ==
  [i \in 1..Len(obj.runs) |-> [url |-> runURL(obj.runs[i].acc), uid |-> obj.uid]]

\* ncbi.urls(db): the search pipeline piped into createFTPURL(db).
urls(db) ==
  /\ proc = "running"
  /\ call.name = "none"
  /\ call' = [NoCall EXCEPT !.name = "urls", !.built = "urls", !.db = db, !.tracked = TRUE]
  /\ dl' = [DlInit EXCEPT !.fn = "urls", !.db = db]
  /\ UNCHANGED <<opts, rs, pg, lk, out, inp, proc, xp, cli>>

\* The transform of createFTPURL on one record of the search pipeline.  The
\* pairs go to the download stage when there is one.
createFTPURLTransform(obj) ==
  /\ proc = "running"
  /\ dl.fn \in {"urls", "download"}
  /\ dl.db = "sra"
  /\ dl.pc # "destroyed" /\ ~out.destroyed
  /\ inp.written < MaxUrls
  /\ inp' = [inp EXCEPT !.written = @ + 1]
  /\ dl' = [dl EXCEPT !.given = obj, !.pairs = @ \o sraURL(obj), !.nnext = 1,
                      !.queue = IF dl.fn = "download" THEN @ \o sraURL(obj) ELSE @]
  /\ UNCHANGED <<call, opts, rs, pg, lk, out, proc, xp, cli>>

\* The transform of createFTPURL('assembly') on one record: assemblyURL
\* requests the listing of the directory of the first FTP path, or calls next
\* for a record without meta.FtpSites.
assemblyURL(obj) ==
  /\ proc = "running"
  /\ dl.fn = "urls"
  /\ dl.db = "assembly"
  /\ dl.ftp.pc # "inflight" /\ ~out.destroyed
  /\ inp.written < MaxUrls
  /\ inp' = [inp EXCEPT !.written = @ + 1]
  /\ dl' = [dl EXCEPT !.ftp = [@ EXCEPT !.obj = obj,
                                        !.pc = IF obj.hasFtpSites THEN "inflight" ELSE "idle",
                                        !.nnext = IF obj.hasFtpSites THEN 0 ELSE 1]]
  /\ UNCHANGED <<call, opts, rs, pg, lk, out, proc, xp, cli>>

\* The map pushed for a listing: the uid and an entry for every link of the
\* page (the file type and format that name the entry are not followed).
urlMap(obj, body) == [uid |-> obj.uid, links |-> body.hrefs]

\* function gotFTPDir (err, res, body)
\*   if (err) { self.emit('error', err) }
\*   if (!res || res.statusCode !== 200) { self.emit('err', res) }
\*   if (!body) { return next() }
\*   ... self.push(urls); next()
\* No branch but the third returns; 'err' is an event nothing listens to.
gotFTPDir(resp) ==
  LET errs == IF resp.err THEN <<Error("listing", NoUrl, 0)>> ELSE <<>>
      evs  == (IF resp.err THEN <<"error">> ELSE <<>>)
              \o (IF ~resp.res \/ resp.statusCode # 200 THEN <<"err">> ELSE <<>>)
  IN  /\ proc = "running"
      /\ dl.fn = "urls"
      /\ dl.ftp.pc = "inflight"
      /\ out' = EmitErrors(out, errs)
      /\ dl' = [dl EXCEPT !.ftp = [@ EXCEPT
                   !.pc = "done", !.resp = resp, !.events = @ \o evs, !.nnext = 1,
                   !.maps = IF resp.body.empty THEN @
                            ELSE Append(@, urlMap(dl.ftp.obj, resp.body))]]
      /\ UNCHANGED <<call, opts, rs, pg, lk, inp, proc, xp, cli>>

(***************************************************************************)
(* Download.                                                               *)
(***************************************************************************)

\* url.replace(/.*\//, ''): what follows the last slash.
RECURSIVE Basename(_)
Basename(url) ==
  IF url = <<>> THEN <<>>
  ELSE IF \E i \in 1..Len(url) : url[i] = "/"
  THEN Basename(Tail(url))
  ELSE IF Head(url) = SRAROOT THEN Tail(url) ELSE url

\* var folder = obj.uid + '/';  var path = folder + url.replace(/.*\//, '')
Path(pair) == <<pair.uid, "/">> \o Basename(pair.url)

\* var log = {uid, url, path} with its status; file is the number of the file
\* in this run.
LogEntry(d, status) ==
  [file |-> d.taken, uid |-> d.cur.uid, url |-> d.cur.url, path |-> Path(d.cur),
   status |-> status]

\* The files at a path (none or one), as a sequence.
FileAt(files, path) ==
  IF \E f \in files : f.path = path
  THEN <<CHOOSE f \in files : f.path = path>> ELSE <<>>

\* The disk after bytes of url were written to path.
Written(files, path, url, whole) ==
  { f \in files : f.path # path } \cup {[path |-> path, whole |-> whole, from |-> url]}

\* The options given to nugget: resume is always set; quiet is unset only for a
\* pretty run whose file is not there yet.
nuggetOptionsNoResume(pretty, exists) ==
  [resume |-> FALSE, quiet |-> ~(pretty /\ ~exists)]

nuggetOptions(pretty, exists) ==
  [resume |-> TRUE, quiet |-> ~(pretty /\ ~exists)]

\* ncbi.download(db): ncbi.urls(db) piped into download(opts).  It may be called
\* again once the stream of the call before is through; the files stay.
download(db, pretty) ==
  /\ proc = "running"
  /\ \/ call.name = "none"
     \/ /\ call.name = "download"
        /\ dl.run < MaxRuns
        /\ dl.queue = <<>>
        /\ dl.pc \in {"idle", "destroyed"}
        /\ dl.taken >= 1
  /\ call' = [NoCall EXCEPT !.name = "download", !.built = "download", !.db = db,
                            !.tracked = TRUE]
  /\ dl' = [DlInit EXCEPT !.fn = "download", !.db = db, !.pretty = pretty,
                          !.run = dl.run + 1, !.files = dl.files]
  /\ out' = OutInit
  /\ inp' = InpInit
  /\ UNCHANGED <<opts, rs, pg, lk, proc, xp, cli>>

\* The transform of download on one pair: mkdirp(obj.uid, ..., gotDir).
downloadTransform ==
  /\ proc = "running"
  /\ dl.fn = "download"
  /\ dl.pc = "idle"
  /\ dl.queue # <<>>
  /\ dl' = [dl EXCEPT !.queue = Tail(@), !.cur = Head(dl.queue), !.taken = @ + 1,
                      !.pc = "mkdir", !.dirErr = FALSE, !.nprogress = 0,
                      !.before = FileAt(dl.files, Path(Head(dl.queue)))]
  /\ UNCHANGED <<call, opts, rs, pg, lk, out, inp, proc, xp, cli>>

\* gotDir(err): the error is emitted and nugget is called all the same.
gotDir(err) ==
  /\ proc = "running"
  /\ dl.pc = "mkdir"
  /\ dl' = [dl EXCEPT !.pc = "nugget", !.dirErr = err]
  /\ out' = EmitErrors(out, IF err THEN <<Error("mkdirp", NoUrl, 0)>> ELSE <<>>)
  /\ UNCHANGED <<call, opts, rs, pg, lk, inp, proc, xp, cli>>

\* nugget(PROXY + url, options, cb) looks at the target.  With resume and the
\* whole file there it calls back at once; otherwise it asks for the bytes (the
\* rest of them for a partial file with resume).  It fails when the request
\* does, and always when the folder could not be made.
nuggetResponse(fails) ==
  LET opt  == nuggetOptions(dl.pretty, dl.before # <<>>)
      here == FileAt(dl.files, Path(dl.cur))
  IN  /\ proc = "running"
      /\ dl.pc = "nugget"
      /\ dl.dirErr => fails
      /\ IF fails
         THEN dl' = [dl EXCEPT !.pc = "failed"]
         ELSE IF opt.resume /\ here # <<>> /\ here[1].whole
         THEN dl' = [dl EXCEPT !.pc = "done"]
         ELSE dl' = [dl EXCEPT !.pc = "transfer", !.started = Append(@, dl.taken),
                               !.files = Written(@, Path(dl.cur), dl.cur.url, FALSE)]
      /\ UNCHANGED <<call, opts, rs, pg, lk, out, inp, proc, xp, cli>>

\* function logging (data): a 'downloading' entry is pushed.  The listener is
\* there only when opts.pretty is not true.
loggingAsCompleted(d) ==
  IF d.pretty \/ out.destroyed THEN d
  ELSE [d EXCEPT !.log = Append(@, LogEntry(d, "completed"))]

logging(d) ==
  IF d.pretty \/ out.destroyed THEN d
  ELSE [d EXCEPT !.log = Append(@, LogEntry(d, "downloading"))]

\* var log = {uid, url, path}: one object for each file.  logging and gotStat
\* write its fields and push the object itself, so every entry pushed for file
\* k is that object, and reads as the entry pushed last for k.
logObject(d, k) ==
  LET own == { i \in 1..Len(d.log) : d.log[i].file = k }
  IN  d.log[CHOOSE i \in own : \A j \in own : j <= i]

\* The entries pushed, as whoever received them finds them now.
pushedEntries(d) == [i \in 1..Len(d.log) |-> logObject(d, d.log[i].file)]

\* dld emits 'progress' while the bytes come.
progress ==
  /\ proc = "running"
  /\ dl.pc = "transfer"
  /\ dl.nprogress < MaxProgress
  /\ dl' = [logging(dl) EXCEPT !.nprogress = @ + 1]
  /\ UNCHANGED <<call, opts, rs, pg, lk, out, inp, proc, xp, cli>>

\* The callback of nugget: if (err) return self.destroy(err); fs.stat(path, gotStat)
nuggetCallback(err) ==
  /\ proc = "running"
  /\ dl.pc \in {"transfer", "done", "failed"}
  /\ err = (dl.pc = "failed") \/ (err /\ dl.pc = "transfer")
  /\ IF err
     THEN /\ dl' = [dl EXCEPT !.pc = "destroyed"]
          /\ out' = EmitErrors(out, <<Error("nugget", NoUrl, 0)>>)
     ELSE /\ dl' = [dl EXCEPT !.pc = "stat",
                              !.files = IF dl.pc = "transfer"
                                        THEN Written(@, Path(dl.cur), dl.cur.url, TRUE)
                                        ELSE @]
          /\ UNCHANGED out
  /\ UNCHANGED <<call, opts, rs, pg, lk, inp, proc, xp, cli>>

\* gotStat(err, stat): the 'completed' entry is pushed and next is called.
gotStat(err) ==
  /\ proc = "running"
  /\ dl.pc = "stat"
  /\ IF err
     THEN /\ dl' = [dl EXCEPT !.pc = "destroyed"]
          /\ out' = EmitErrors(out, <<Error("stat", NoUrl, 0)>>)
     ELSE /\ dl' = [dl EXCEPT !.pc = "idle",
                              !.log = IF out.destroyed THEN @
                                      ELSE Append(@, LogEntry(dl, "completed"))]
          /\ UNCHANGED out
  /\ UNCHANGED <<call, opts, rs, pg, lk, inp, proc, xp, cli>>

(***************************************************************************)
(* Command-line program.                                                   *)
(***************************************************************************)

\* process.exit(code): without an argument the process exits with
\* process.exitCode, which nothing sets: 0.
processExit(code) == IF code = Unset THEN 0 ELSE code

\* The stream has emitted an error the listener has not handled yet.  emit
\* calls the listener before anything else runs.
ErrorPending == cli.started /\ ~cli.exited /\ Len(out.errors) > Len(cli.printed)

\* The program is running and no listener is due.
CliRunning == cli.started /\ ~cli.exited /\ ~ErrorPending

\* ncbiStream.on('error', function (error) {
\*   console.error(error.message); process.exit() })
cliOnError ==
  /\ ErrorPending
  /\ cli' = [cli EXCEPT !.printed = Append(@, out.errors[Len(cli.printed) + 1]),
                        !.exited = TRUE, !.code = processExit(Unset)]
  /\ UNCHANGED <<call, opts, rs, pg, lk, out, inp, proc, xp, dl>>

\* An exception nobody catches (thrown by the entry point or inside a
\* callback): node prints it and exits with code 1.
cliUncaught ==
  /\ cli.started /\ ~cli.exited
  /\ call.thrown # "" \/ proc = "crashed"
  /\ cli' = [cli EXCEPT !.exited = TRUE, !.code = 1]
  /\ UNCHANGED <<call, opts, rs, pg, lk, out, inp, proc, xp, dl>>

\* The stream has ended and everything was written to stdout: nothing is left
\* to do and the process exits with code 0.
cliDrained ==
  /\ CliRunning
  /\ proc = "running"
  /\ out.ended
  /\ cli' = [cli EXCEPT !.exited = TRUE, !.code = 0]
  /\ UNCHANGED <<call, opts, rs, pg, lk, out, inp, proc, xp, dl>>

(***************************************************************************)
(* Specifications.                                                         *)
(***************************************************************************)

LimitArgs == {Unset} \cup (0..MaxLimit)

ThroughputArgs == {Unset} \cup (0..MaxThroughput)

PipeLimits == {Unset, 0, 2}

PipeThroughputs == {Unset, 1}

PaginateInputs ==
  { Result(TRUE, createAPISearchUrl("sra", t), b) :
      t \in Terms, b \in { SearchBody(c) : c \in CountValues } \cup MalformedBodies }

\* The library: one entry point is called, then its pipeline runs.
Init ==
  /\ call = NoCall
  /\ opts = NoOpts
  /\ rs = [s \in Stages |-> RsInit]
  /\ pg = XfInit
  /\ lk = XfInit
  /\ out = OutInit
  /\ inp = InpInit
  /\ proc = "running"
  /\ xp = XpInit
  /\ dl = DlInit
  /\ cli = CliInit

StageStep ==
  \E s \in Stages :
    \/ requestStreamTransform(s)
    \/ \E resp \in Responses(rs[s].cur) : gotData(s, resp)
    \/ retryGet(s)
    \/ nextTimer(s)

\* Every entry point that takes a database name, called with every name, a
\* term (or source UID) and the default options.
Next ==
  \/ \E db \in DbArgs : search(db, <<"a">>, Unset, Unset)
  \/ \E db \in DbArgs : fetch(db, <<"a">>, Unset, Unset)
  \/ \E db \in DbArgs : link(db, "sra", "35533") \/ link("sra", db, "35533")
  \/ emitEnd
  \/ StageStep

Spec == Init /\ [][Next]_vars

\* ncbi.search with and without a term, with limits and page sizes; terms
\* written to the stream afterwards.
NextSearch ==
  \/ \E db \in {"sra", "invalid"}, term \in Terms \cup {<<>>},
        l \in PipeLimits, t \in PipeThroughputs : search(db, term, l, t)
  \/ \E term \in Terms : writeTerm(term)
  \/ endInput
  \/ emitEnd
  \/ StageStep

SpecSearch == Init /\ [][NextSearch]_vars

\* ncbi.link with and without a source UID; UIDs written afterwards.
NextLink ==
  \/ \E src \in {"sra", "tax"}, uid \in UIDs \cup {""} : link(src, "bioproject", uid)
  \/ \E uid \in UIDs : writeUID(uid)
  \/ endInput
  \/ emitEnd
  \/ requestStreamTransform(1)
  \/ \E resp \in Responses(rs[1].cur) : gotData(1, resp)
  \/ retryGet(1)
  \/ nextTimer(1)

SpecLink == Init /\ [][NextLink]_vars

\* A requestStream(returnURL) used alone, URLs written to it one after another.
InitFetch ==
  /\ call \in { [NoCall EXCEPT !.built = "requestStream", !.returnURL = b] : b \in BOOLEAN }
  /\ opts = [NoOpts EXCEPT !.db = "sra"]
  /\ rs = [s \in Stages |-> RsInit]
  /\ pg = XfInit
  /\ lk = XfInit
  /\ out = OutInit
  /\ inp = InpInit
  /\ proc = "running"
  /\ xp = XpInit
  /\ dl = DlInit
  /\ cli = CliInit

NextFetch ==
  \/ \E term \in Terms : writeTerm(term)
  \/ requestStreamTransform(1)
  \/ \E resp \in Responses(rs[1].cur) : gotData(1, resp)
  \/ retryGet(1)
  \/ nextTimer(1)

SpecFetch == InitFetch /\ [][NextFetch]_vars

\* A createAPIPaginateURL(opts) used alone, search responses written to it.
InitPaginate ==
  /\ call = [NoCall EXCEPT !.built = "paginate"]
  /\ opts \in [db : {"sra"}, limit : LimitArgs, throughput : ThroughputArgs]
  /\ rs = [s \in Stages |-> RsInit]
  /\ pg = XfInit
  /\ lk = XfInit
  /\ out = OutInit
  /\ inp = InpInit
  /\ proc = "running"
  /\ xp = XpInit
  /\ dl = DlInit
  /\ cli = CliInit

NextPaginate == \E obj \in PaginateInputs : paginateTransform(obj)

SpecPaginate == InitPaginate /\ [][NextPaginate]_vars

\* expand and plink: records written to the transform one after another.
Properties == {"tax", "biosample"}

XrefRecords ==
  { [uid |-> Value(FALSE, <<"g1">>)] }
  \cup { SetField([uid |-> Value(FALSE, <<"g1">>)], p \o "id", v) :
           p \in Properties,
           v \in { Value(FALSE, <<"9606">>), Value(TRUE, <<"1", "2">>) } }
  \cup { SetField(SetField([uid |-> Value(FALSE, <<"g2">>)], "taxid", Value(FALSE, <<"9606">>)),
                  "sraid", Value(TRUE, <<"s0">>)) }

NextXref ==
  \/ \E p \in Properties, d \in {"", "organism"} : expand(p, d)
  \/ \E p \in Properties : plink(p, "sra")
  \/ \E obj \in XrefRecords : expandTransform(obj)
  \/ \E k \in 1..2, rec \in SearchRecords : searchData(k, rec)
  \/ \E obj \in XrefRecords : plinkTransform(obj)
  \/ \E body \in LinkBodies(createAPILinkURL(xp.db, call.destDB, <<>>)) : linkData(body)

SpecXref == Init /\ [][NextXref]_vars

\* expand alone, its inner searches giving records or none.
NextExpand ==
  \/ \E p \in Properties, d \in {"", "organism"} : expand(p, d)
  \/ \E obj \in XrefRecords : expandTransform(obj)
  \/ \E k \in 1..2, rec \in SearchRecords : searchData(k, rec)
  \/ \E k \in 1..2 : searchEmpty(k)

SpecExpand == Init /\ [][NextExpand]_vars

\* The run accessions of the sra records: full length, and shorter than the slices.
Accs ==
  { <<"S", "R", "R", "6", "2", "0", "5">>, <<"E", "R", "R", "0", "0", "1">>, <<"D", "R">> }

RunLists ==
  {<<>>} \cup { <<[acc |-> a]>> : a \in Accs }
         \cup { <<[acc |-> a], [acc |-> b]>> : a, b \in Accs }

\* The sra records the search pipeline gives, after ensureIsArray('runs.Run').
SraRecords == { [uid |-> u, runs |-> r] : u \in UIDs, r \in RunLists }

NextUrls ==
  \/ urls("sra")
  \/ \E obj \in SraRecords : createFTPURLTransform(obj)

SpecUrls == Init /\ [][NextUrls]_vars

\* The assembly records the search pipeline gives, and what the request for a
\* directory listing may be answered with: a transport error without a
\* response, or a response with a status and a body.
AssemblyRecords == { [uid |-> u, hasFtpSites |-> b] : u \in UIDs, b \in BOOLEAN }

DirBodies == { DirBody(TRUE, {}), DirBody(FALSE, {}), DirBody(FALSE, {"a_genomic.fna.gz"}) }

DirResponses ==
  { Response(TRUE, FALSE, 0, DirBody(TRUE, {})) }
  \cup { Response(FALSE, TRUE, c, b) : c \in {200, 404, 500}, b \in DirBodies }

NextAssembly ==
  \/ urls("assembly")
  \/ \E obj \in AssemblyRecords : assemblyURL(obj)
  \/ \E resp \in DirResponses : gotFTPDir(resp)

SpecAssembly == Init /\ [][NextAssembly]_vars

\* ncbi.download('sra', term), twice: the records the search gives go through
\* createFTPURL to the download stage.
DlRecords ==
  { [uid |-> u, runs |-> r] :
      u \in UIDs,
      r \in { <<[acc |-> <<"S", "R", "R", "6", "2", "0", "5">>]>>,
              <<[acc |-> <<"S", "R", "R", "6", "2", "0", "5">>],
                [acc |-> <<"E", "R", "R", "0", "0", "1">>]>> } }

NextDownload ==
  \/ \E pretty \in BOOLEAN : download("sra", pretty)
  \/ \E obj \in DlRecords : createFTPURLTransform(obj)
  \/ downloadTransform
  \/ \E err \in BOOLEAN : gotDir(err)
  \/ \E fails \in BOOLEAN : nuggetResponse(fails)
  \/ progress
  \/ \E err \in BOOLEAN : nuggetCallback(err)
  \/ \E err \in BOOLEAN : gotStat(err)

SpecDownload == Init /\ [][NextDownload]_vars

\* bionode-ncbi search <db> <term> [--limit n]: var ncbiStream = ncbi.search(argv)
InitCli ==
  /\ call = NoCall
  /\ opts = NoOpts
  /\ rs = [s \in Stages |-> RsInit]
  /\ pg = XfInit
  /\ lk = XfInit
  /\ out = OutInit
  /\ inp = InpInit
  /\ proc = "running"
  /\ xp = XpInit
  /\ dl = DlInit
  /\ cli = [CliInit EXCEPT !.started = TRUE]

NextCli ==
  \/ CliRunning /\ \E db \in {"sra", "taxonomy"}, l \in {Unset, 2} : search(db, <<"a">>, l, Unset)
  \/ CliRunning /\ emitEnd
  \/ CliRunning /\ StageStep
  \/ cliOnError
  \/ cliUncaught
  \/ cliDrained

SpecCli == InitCli /\ [][NextCli]_vars

\* One search of more than one page: ncbi.search({db, term, limit, throughput})
NextOrder ==
  \/ search("sra", <<"a">>, OrderLimit, OrderThroughput)
  \/ emitEnd
  \/ StageStep

SpecOrder == Init /\ [][NextOrder]_vars

\* A search whose output stream the reader may destroy at any moment.
NextCancel ==
  \/ \E l \in {Unset, 2} : search("sra", <<"a">>, l, Unset)
  \/ destroyOutput
  \/ emitEnd
  \/ StageStep

SpecCancel == Init /\ [][NextCancel]_vars

\* A service that answers every request of a search in the end: it fails a URL
\* fewer than MAXTRIES times, reports one count for the whole session and
\* gives every page the ids of its range.
Answers(s, url) ==
  LET cnt == rs[1].body.count
  IN  CASE url.ep = "esearch" /\ url.webenv = "" ->
             IF s = 1 THEN { SearchBody(c) : c \in PipeCounts } ELSE { SearchBody(cnt) }
        [] url.ep = "esearch" /\ url.webenv # "" ->
             { [SearchBody(cnt) EXCEPT
                  !.idlist = PageIds(url.retstart, MinOf(cnt - url.retstart, url.retmax))] }
        [] url.ep = "esummary" -> { [NoBody EXCEPT !.empty = FALSE, !.uids = url.id] }
        [] OTHER -> {}

StepComplete ==
  \E s \in Stages :
    \/ requestStreamTransform(s)
    \/ \E resp \in FailResponses \cup { Ok(b) : b \in Answers(s, rs[s].cur) } :
         gotDataWithin(s, resp, MAXTRIES - 1)
    \/ retryGet(s)
    \/ nextTimer(s)

\* ncbi.search(db, term) against that service.  The timers fire and the
\* responses arrive: the steps of the stages and the end of the output are
\* weakly fair.
NextComplete ==
  \/ \E term \in Terms : search("sra", term, Unset, Unset)
  \/ emitEnd
  \/ StepComplete

SpecComplete ==
  Init /\ [][NextComplete]_vars /\ WF_vars(StepComplete) /\ WF_vars(emitEnd)

\* Every shape of the arguments of gotData: a transport error or none, a
\* response object or none, its status, and the body.
StatusCodes == {200, 206, 404, 500}

ClassifyBodies ==
  { NoBody,
    SearchBody(2),
    [SearchBody(2) EXCEPT !.ERROR = TRUE],
    [NoBody EXCEPT !.empty = FALSE],
    [NoBody EXCEPT !.empty = FALSE, !.unable = TRUE],
    [NoBody EXCEPT !.empty = FALSE, !.error = TRUE] }

AllResponses ==
  { Response(e, TRUE, c, b) : e \in BOOLEAN, c \in StatusCodes, b \in ClassifyBodies }
  \cup { Response(e, FALSE, 0, b) : e \in BOOLEAN, b \in ClassifyBodies }

\* A requestStream used alone whose requests get every such response.
NextClassify ==
  \/ writeTerm(<<"a">>)
  \/ requestStreamTransform(1)
  \/ \E resp \in AllResponses : respond(1, resp)
  \/ gotResponse(1)
  \/ retryGet(1)
  \/ nextTimer(1)

SpecClassify == InitFetch /\ [][NextClassify]_vars

\* A createAPIDataUrl() or createAPIFetchUrl() used alone, page responses with
\* id lists of the lengths around the chunk length written to it.
ChunkLens == {0, 1, 2, idsChunkLen - 1, idsChunkLen, idsChunkLen + 1,
              2 * idsChunkLen, 2 * idsChunkLen + 1}

ChunkIds(n) == [i \in 1..n |-> "u" \o ToString(i)]

ChunkInputs ==
  { Result(TRUE, createAPISearchUrl(db, <<"a">>), [SearchBody(n) EXCEPT !.idlist = ChunkIds(n)]) :
      db \in dbs, n \in ChunkLens }
  \cup { Result(TRUE, createAPISearchUrl("sra", <<"a">>), b) : b \in MalformedBodies }

InitChunks ==
  /\ call \in { [NoCall EXCEPT !.built = b] : b \in {"dataUrl", "fetchUrl"} }
  /\ opts = NoOpts
  /\ rs = [s \in Stages |-> RsInit]
  /\ pg = XfInit
  /\ lk = XfInit
  /\ out = OutInit
  /\ inp = InpInit
  /\ proc = "running"
  /\ xp = XpInit
  /\ dl = DlInit
  /\ cli = CliInit

NextChunks == \E obj \in ChunkInputs : dataUrlTransform(obj)

SpecChunks == InitChunks /\ [][NextChunks]_vars

\* The paginator and the summary-URL builder used alone, given the response
\* to a search URL built for every database and for terms with quotes, '&',
\* '=' and '#'.
DbTerms ==
  Terms \cup { <<"a", "&", "b">>, <<"a", "=", "b">>, <<"a", "#", "b">>,
               <<"a", "&", "d", "b", "=", "x">>,
               <<"a", "#", "&", "d", "b", "=", "x">> }

DbInputs ==
  { Result(TRUE, createAPISearchUrl(db, t), SearchBody(c)) :
      db \in dbs, t \in DbTerms, c \in 1..2 }

InitDb ==
  /\ call \in { [NoCall EXCEPT !.built = b] : b \in {"paginate", "dataUrl"} }
  /\ opts = [NoOpts EXCEPT !.db = "sra"]
  /\ rs = [s \in Stages |-> RsInit]
  /\ pg = XfInit
  /\ lk = XfInit
  /\ out = OutInit
  /\ inp = InpInit
  /\ proc = "running"
  /\ xp = XpInit
  /\ dl = DlInit
  /\ cli = CliInit

NextDb ==
  \/ \E obj \in DbInputs : paginateTransform(obj)
  \/ \E obj \in DbInputs : dataUrlTransform(obj)

SpecDb == InitDb /\ [][NextDb]_vars

(***************************************************************************)
(* Paginator claims (SpecPaginate).                                        *)
(***************************************************************************)

\* The records a pushed request asks for: its retmax, or, for the original
\* search URL pushed for a singleton result, the one record there is.
RecordsAsked(url) == IF url.retmax = Unset THEN 1 ELSE url.retmax

RECURSIVE SumAsked(_)
SumAsked(reqs) == IF reqs = <<>> THEN 0 ELSE RecordsAsked(Head(reqs)) + SumAsked(Tail(reqs))

\* C1: for a reported count C, a limit L (set or unset) and the effective page
\* size T, the paginator pushes ceil(min(C, L if set else C) / T) page requests
\* for one search response, and exactly one (the search URL) when C = 1.
C1_PageCount ==
  (pg.nnext = 1 /\ ~InvalidResults(pg.obj.body) /\ Throughput(opts) >= 1)
    => LET C == pg.obj.body.count
           L == IF opts.limit = Unset THEN C ELSE opts.limit
       IN  Len(pg.pushed) = IF C = 1 THEN 1 ELSE CeilDiv(MinOf(C, L), Throughput(opts))

\* C2: with a limit L >= 1 the records asked for by all the page requests of
\* one search response (the sum of their retmax) never exceed L.
C2_LimitIsCap ==
  (pg.nnext = 1 /\ opts.limit >= 1) => SumAsked(pg.pushed) <= opts.limit

(***************************************************************************)
(* Retrying Fetcher claims (SpecFetch).                                    *)
(***************************************************************************)

\* C3: a URL that fails k < 9 times and then succeeds gets exactly k + 1
\* requests, its success body is pushed once and unmodified (with the URL when
\* returnURL is set), no error is raised and next is called once.
C3_RetryThenSuccess ==
  (rs[1].npush >= 1 /\ rs[1].nfail < MAXTRIES)
    => /\ rs[1].nreq = rs[1].nfail + 1
       /\ rs[1].npush = 1
       /\ rs[1].result = [paired |-> call.returnURL,
                          url |-> IF call.returnURL THEN rs[1].cur ELSE NoUrl,
                          body |-> rs[1].body]
       /\ rs[1].nerr = 0
       /\ rs[1].nnext = IF rs[1].pc = "idle" THEN 1 ELSE 0

\* C4: at most 9 requests are issued for any single URL.
C4_RetryCap == \A s \in Stages : rs[s].nreq <= MAXTRIES

\* C5: after 9 failed attempts for a URL the fatal error is raised and no
\* success body for that URL is pushed afterwards.
C5_ExhaustionIsFatal ==
  \A s \in Stages :
    rs[s].nfail >= MAXTRIES
      => /\ rs[s].npush = 0
         /\ (rs[s].pc = "inflight" => rs[s].nerr >= 1)

(***************************************************************************)
(* Search pipeline claims (SpecSearch).                                    *)
(***************************************************************************)

\* C6 as stated: a decoded search response with no esearchresult, webenv or
\* count is never re-issued, and the error naming its URL is raised.
C6_MalformedNeverRetried ==
  rs[1].last \in {"okInvalid", "failInvalid"}
    => /\ rs[1].pc \in {"nextTimer", "idle"}
       /\ \E i \in 1..Len(out.errors) : out.errors[i] = Error("invalid", rs[1].cur, 0)

\* C6 amended: a search response the fetcher hands to the paginator and that
\* has no esearchresult, webenv or count is not re-issued, raises the error
\* naming its URL and yields no page request.  (The fetcher hands over only
\* what gotData accepts: a response with esearchresult.ERROR or an error field
\* is re-issued instead.)
C6_MalformedIsFatal ==
  /\ (pg.obj # NoResult /\ InvalidResults(pg.obj.body))
       => /\ pg.pushed = <<>>
          /\ pg.nnext = 1
          /\ pg.errors = <<Error("invalid", pg.obj.url, 0)>>
          /\ \E i \in 1..Len(out.errors) : out.errors[i] = Error("invalid", pg.obj.url, 0)
          /\ pg.obj.url.ep = "esearch" /\ pg.obj.url.db = opts.db
  /\ rs[1].last = "okInvalid"
       => rs[1].pc \in {"nextTimer", "idle"} /\ rs[1].nreq = rs[1].nfail + 1

C6_Witness ==
  /\ call.built = "search"
  /\ pg.obj # NoResult /\ InvalidResults(pg.obj.body)
  /\ rs[1].last = "okInvalid" /\ rs[1].cur = pg.obj.url
  /\ out.errors # <<>>

\* The paginator got an esearchresult with webenv and no count.
NoCountSeen ==
  /\ pg.obj # NoResult
  /\ pg.obj.body.esr
  /\ pg.obj.body.webenv # ""
  /\ pg.obj.body.count = Unset

\* The output stream has emitted the paginator's error.
InvalidRaised == \E i \in 1..Len(out.errors) : out.errors[i].kind = "invalid"

\* C7: once the paginator got an esearchresult with webenv and no count, the
\* output stream has emitted 'error', and from then on it emits no record and
\* no 'end'.
C7_ErrorNoRecordNoEnd ==
  [][/\ NoCountSeen' => (InvalidRaised' /\ ~out'.ended)
     /\ NoCountSeen => (out'.records = out.records /\ ~out'.ended)]_vars

C7_Witness ==
  /\ call.built = "search"
  /\ pg.obj # NoResult /\ pg.obj.body.esr
  /\ pg.obj.body.webenv = "Fake Results" /\ pg.obj.body.count = Unset
  /\ out.destroyed /\ inp.ended
  /\ \A s \in Stages : rs[s].pc = "idle" /\ rs[s].queue = <<>>

(***************************************************************************)
(* Database-name claims (Spec).                                            *)
(***************************************************************************)

\* C8: search with a name that is no key of the table throws InvalidDbError
\* before anything is built or requested; with a key it throws nothing.
C8_SearchRejectsUnknownDb ==
  call.name = "search"
    => IF call.db \in dbs
       THEN call.thrown = "" /\ call.built = "search"
       ELSE /\ call.thrown = "InvalidDbError"
            /\ call.built = "none"
            /\ rs = [s \in Stages |-> RsInit]
            /\ inp = InpInit

C8_Witness ==
  call.name = "search" /\ call.db = "invalid" /\ call.thrown = "InvalidDbError"

\* C9: fetch and link with an unknown database name throw before anything is
\* requested.
C9_FetchLinkRejectUnknownDb ==
  (/\ call.name \in {"fetch", "link"}
   /\ \/ call.db \notin dbs \cup {"tax"}
      \/ (call.name = "link" /\ call.destDB \notin dbs))
    => /\ call.thrown # ""
       /\ \A s \in Stages : rs[s].nreq = 0 /\ rs[s].queue = <<>>

(***************************************************************************)
(* Link claims (SpecLink).                                                 *)
(***************************************************************************)

\* C10: a link response with no sub-list named srcDB_destDB (none at all, or
\* only others) yields no LinkResult and no error.
C10_NoMatchNoResult ==
  (/\ lk.obj # NoResult
   /\ ~lk.obj.body.link.parseErr
   /\ lk.obj.body.link.hasLinkSet
   /\ LinkMatches(lk.obj) = <<>>)
    => lk.pushed = <<>> /\ lk.errors = <<>>

\* The response has a sub-list named after the pair of the request.
LinkNamed(obj) ==
  { i \in 1..Len(obj.body.link.LinkSetDb) :
      obj.body.link.LinkSetDb[i].LinkName = LinkSrcDB(call.db) \o "_" \o call.destDB }

IdGiven == getValue(xp.given, xp.property \o "id") # Undefined

\* C12: a record without the field <property>id written to expand or plink is
\* pushed once as it is, no inner search or link is started for it, next is
\* called once, and nothing more is pushed until the next record is written.
C12_PassThrough ==
  [][(xp'.fn \in {"expand", "plink"} /\ xp'.given # NoRecord /\ ~IdGiven')
       => /\ xp'.inner = <<>> /\ xp'.nnext = 1 /\ ~xp'.busy
          /\ rs' = rs
          /\ IF inp'.written # inp.written
             THEN xp'.pushed = Append(xp.pushed, xp'.given)
             ELSE xp'.pushed = xp.pushed]_vars

C12_Witness ==
  /\ xp.fn = "plink" /\ xp.property = "biosample"
  /\ xp.given.uid = Value(FALSE, <<"g2">>)
  /\ ~IdGiven
  /\ Len(xp.pushed) = 2 /\ xp.pushed[2] = xp.given

\* C13: a record with the field <property>id is pushed by expand exactly once,
\* with the matched record(s) under destProperty, and next is called once for
\* it, also when the search gives more than one record.
C13_ExpandEmitsOnce ==
  (xp.fn = "expand" /\ IdGiven)
    => /\ xp.nnext <= 1
       /\ xp.nnext = 1 =>
            /\ xp.pushed # <<>>
            /\ xp.pushed[Len(xp.pushed)] = xp.obj
            /\ DOMAIN xp.obj = DOMAIN xp.given \cup {xp.dest}

\* C14: for a record with <property>id for which link gives a result with
\* destUIDs, plink pushes the record with <destDB>id set to that list, in
\* order, and every other field as it was written.
C14_PlinkAttaches ==
  (/\ xp.fn = "plink" /\ IdGiven
   /\ xp.inner # <<>> /\ xp.inner[1].ndata = 1 /\ xp.inner[1].data.hasDestUIDs)
    => /\ xp.dest = call.destDB \o "id"
       /\ xp.nnext = 1
       /\ xp.pushed # <<>>
       /\ xp.pushed[Len(xp.pushed)] =
            [f \in DOMAIN xp.given \cup {xp.dest} |->
               IF f = xp.dest THEN Value(TRUE, xp.inner[1].data.destUIDs)
               ELSE xp.given[f]]

C14_Witness ==
  /\ xp.fn = "plink" /\ xp.property = "tax"
  /\ xp.given.uid = Value(FALSE, <<"g2">>)
  /\ xp.inner # <<>> /\ xp.inner[1].ndata = 1
  /\ xp.inner[1].data.destUIDs = <<"d1", "d2">>
  /\ xp.pushed[Len(xp.pushed)].sraid = Value(TRUE, <<"d1", "d2">>)

\* C15: expand starts one search per id of the field (one for a scalar, one
\* per element of a list); for property 'tax' every search is on taxonomy and
\* its term is the single id followed by [uid].
C15_ExpandSearchPerId ==
  (xp.fn = "expand" /\ IdGiven)
    => LET ids == getValue(xp.given, xp.property \o "id")
       IN  /\ Len(xp.inner) = Len(ids.v)
           /\ xp.property = "tax" =>
                \A i \in 1..Len(xp.inner) :
                  /\ xp.inner[i].db = "taxonomy"
                  /\ i <= Len(ids.v) => xp.inner[i].term = <<ids.v[i], "[uid]">>

(***************************************************************************)
(* URLs claims (SpecUrls).                                                 *)
(***************************************************************************)

\* The archive path of a run accession: acc[0:3]/acc[0:6]/acc/acc.sra
ArchivePath(acc) ==
  [i \in 1..MinOf(3, Len(acc)) |-> acc[i]] \o <<"/">>
    \o [i \in 1..MinOf(6, Len(acc)) |-> acc[i]] \o <<"/">>
    \o acc \o <<"/">> \o acc \o <<".sra">>

\* C16: for an sra record, urls emits one {url, uid} pair per run of runs.Run,
\* in run order, uid being the uid of the record and url the fixed base
\* followed by acc[0:3]/acc[0:6]/acc/acc.sra.
C16_SraUrls ==
  [][inp'.written # inp.written /\ dl'.fn = "urls"
       => LET obj == dl'.given
              new == SubSeq(dl'.pairs, Len(dl.pairs) + 1, Len(dl'.pairs))
          IN  /\ SubSeq(dl'.pairs, 1, Len(dl.pairs)) = dl.pairs
              /\ Len(new) = Len(obj.runs)
              /\ \A i \in 1..Len(new) :
                   /\ new[i].uid = obj.uid
                   /\ new[i].url = <<SRAROOT>> \o ArchivePath(obj.runs[i].acc)
              /\ dl'.nnext = 1]_vars

C16_Witness ==
  /\ dl.fn = "urls"
  /\ Len(dl.given.runs) = 2
  /\ dl.given.runs[1].acc # dl.given.runs[2].acc
  /\ Len(dl.pairs) = 3
  /\ dl.pairs[3].url = runURL(dl.given.runs[2].acc)
  /\ dl.pairs[3].uid = dl.given.uid

(***************************************************************************)
(* Download claims (SpecDownload).                                         *)
(***************************************************************************)

\* The 'completed' entries of file k in the log of this run.
CompletedOf(k) ==
  { i \in 1..Len(dl.log) : dl.log[i].file = k /\ dl.log[i].status = "completed" }

\* C17: the entries of the download stream come file by file; those of one
\* file are any number of 'downloading' entries and then one 'completed'
\* entry, which is its last; a file is taken, and its bytes are asked for, only
\* when every file before it has its 'completed' entry; a file whose handling
\* is through has exactly one.
C17_LogProtocol ==
  (dl.fn = "download" /\ ~out.destroyed /\ dl.pc # "destroyed")
    => /\ \A i \in 1..Len(dl.log) :
            /\ dl.log[i].status \in {"downloading", "completed"}
            /\ dl.log[i].file \in 1..dl.taken
            /\ i < Len(dl.log) =>
                 /\ dl.log[i].file <= dl.log[i + 1].file
                 /\ dl.log[i].status = "completed" => dl.log[i].file < dl.log[i + 1].file
       /\ \A k \in 1..dl.taken :
            /\ Cardinality(CompletedOf(k)) <= 1
            /\ (k < dl.taken \/ dl.pc = "idle") => Cardinality(CompletedOf(k)) = 1
       /\ \A j \in 1..Len(dl.started) :
            \A k \in 1..dl.started[j] - 1 : Cardinality(CompletedOf(k)) = 1

C17_Witness ==
  /\ dl.fn = "download" /\ ~out.destroyed
  /\ dl.taken = 2 /\ dl.pc = "transfer"
  /\ Len(dl.log) = 4
  /\ dl.log[1].status = "downloading" /\ dl.log[2].status = "downloading"
  /\ dl.log[3].status = "completed" /\ dl.log[3].file = 1
  /\ dl.log[4].status = "downloading" /\ dl.log[4].file = 2

C19_ExitStatus ==
  /\ (cli.started /\ out.errors # <<>> /\ ~ErrorPending)
       => /\ cli.exited
          /\ cli.printed = <<out.errors[1]>>
          /\ cli.code # 0
  /\ (cli.exited /\ cli.code = 0) => (out.errors = <<>> /\ proc = "running" /\ out.ended)

(***************************************************************************)
(* Output order claims (SpecOrder).                                        *)
(***************************************************************************)

\* The page a record comes from: its place in the result set over the page size.
PageOf(rec) ==
  ((CHOOSE k \in 1..(OrderLimit + 1) : IdAt(k) = rec.uid) - 1) \div Throughput(opts)

\* C20: on the output stream of one search every record of page i comes before
\* every record of page j for i < j, however the responses arrive.
C20_PageOrder ==
  call.built = "search"
    => \A i, j \in 1..Len(out.records) :
         i < j => PageOf(out.records[i]) <= PageOf(out.records[j])

C20_Witness ==
  /\ call.built = "search"
  /\ Len(out.records) = 4
  /\ PageOf(out.records[2]) = 0 /\ PageOf(out.records[3]) = 1
  /\ out.ended
  /\ \E s \in Stages : rs[s].nfail >= 1

(***************************************************************************)
(* Cancellation claims (SpecCancel).                                       *)
(***************************************************************************)

\* C21: once the output stream of a search is destroyed no stage issues a new
\* request (for a later URL or as a retry), and nothing more reaches the stage
\* after it or the output.
C21_NoRequestAfterDestroy ==
  [][out.destroyed =>
       /\ \A s \in Stages : rs'[s].pc = "inflight" => rs[s].pc = "inflight"
       /\ \A s \in Stages : Len(rs'[s].queue) <= Len(rs[s].queue)
       /\ out'.records = out.records]_vars

(***************************************************************************)
(* Backpressure claims (SpecPaginate).                                     *)
(***************************************************************************)

\* C22: the page requests waiting between the Paginator and the fetcher after
\* it stay within the stream's buffer size whatever the reported count is: the
\* Paginator does not emit all the remaining page requests while the fetcher
\* still works on the first one.
C22_BoundedPageBuffer ==
  Len(pg.pushed) - 1 <= highWaterMark

(***************************************************************************)
(* Completion claims (SpecComplete).                                       *)
(***************************************************************************)

\* The records of a result set of n records.
AllRecords(n) == [i \in 1..n |-> [uid |-> IdAt(i)]]

\* C23: search(db, term) called with a term, against a service that answers
\* every request after fewer than 9 failures, eventually has emitted all the
\* records of the reported count and then 'end', for every count, 0 included.
C23_SearchCompletes ==
  (call.built = "search") ~>
     (out.ended /\ out.records = AllRecords(rs[1].body.count) /\ out.errors = <<>>)

\* Ended with two records after a URL failed MAXTRIES - 1 times.
C23_Witness ==
  /\ out.ended /\ Len(out.records) = 2
  /\ \E s \in Stages : rs[s].nfail = MAXTRIES - 1

\* Ended without a record for a count of 0.
C23_WitnessZero ==
  out.ended /\ rs[1].body.esr /\ rs[1].body.count = 0 /\ out.records = <<>>

(***************************************************************************)
(* Page request claims (SpecPaginate).                                     *)
(***************************************************************************)

\* C25: for a valid search response whose count is not 1, the k-th page
\* request emitted (k counted from 0) has retstart = k * T, T the effective
\* page size; the requests come in increasing order of k and all carry
\* retmax = T and the session token of the response.
C25_PageOffsets ==
  (pg.nnext = 1 /\ ~InvalidResults(pg.obj.body) /\ pg.obj.body.count # 1)
    => \A k \in 1..Len(pg.pushed) :
         /\ pg.pushed[k].retstart = (k - 1) * pg.pushed[1].retmax
         /\ pg.pushed[k].retmax = pg.pushed[1].retmax
         /\ pg.pushed[k].webenv = pg.obj.body.webenv
         /\ pg.pushed[k].webenv # ""

\* Three pages of two records: offsets 0, 2 and 4.
C25_Witness ==
  /\ pg.nnext = 1 /\ Len(pg.pushed) = 3
  /\ pg.pushed[1].retmax = 2
  /\ pg.pushed[3].retstart = 4

\* C26: when a limit is given, the page size of every page request emitted is
\* at most the limit: the given throughput when that is at most the limit, the
\* limit when the throughput is greater, and the default 50 clamped to the
\* limit when no throughput is given (a throughput of 0 counts as not given).
C26_PageSizeWithinLimit ==
  (pg.nnext = 1 /\ opts.limit # Unset)
    => \A k \in 1..Len(pg.pushed) :
         pg.pushed[k].webenv # "" =>
           /\ pg.pushed[k].retmax <= opts.limit
           /\ pg.pushed[k].retmax =
                IF opts.throughput \in {Unset, 0} THEN MinOf(50, opts.limit)
                ELSE IF opts.throughput <= opts.limit THEN opts.throughput
                ELSE opts.limit

\* Limit 2 with throughput 3: pages of 2.
C26_Witness ==
  /\ pg.nnext = 1 /\ opts.limit = 2 /\ opts.throughput = 3
  /\ pg.pushed # <<>> /\ pg.pushed[1].retmax = 2

\* C27: for a valid search response whose count is 1 the paginator emits the
\* URL of the search, unchanged, as its only output, whatever limit and
\* throughput are: no request with a session token or an offset.
C27_SingletonPage ==
  (pg.obj # NoResult /\ ~InvalidResults(pg.obj.body) /\ pg.obj.body.count = 1)
    => /\ pg.nnext = 1
       /\ pg.pushed = <<pg.obj.url>>
       /\ pg.obj.url.webenv = "" /\ pg.obj.url.retstart = Unset
       /\ pg.obj.url.retmax = Unset

\* A count of 1 with limit 0, for which every other count gives no page.
C27_Witness ==
  /\ pg.obj # NoResult /\ ~InvalidResults(pg.obj.body) /\ pg.obj.body.count = 1
  /\ opts.limit = 0 /\ opts.throughput = 3
  /\ Len(pg.pushed) = 1

(***************************************************************************)
(* Singleton claims (SpecSearch).                                          *)
(***************************************************************************)

\* C28: a search whose reported count is 1 saves a round trip: after the
\* search request itself no further request goes to the search endpoint, the
\* URL the paginator passes on is not requested again.
C28_SingletonNoSecondSearch ==
  (/\ call.built = "search"
   /\ pg.obj # NoResult /\ ~InvalidResults(pg.obj.body) /\ pg.obj.body.count = 1)
    => ~(rs[2].cur = pg.obj.url /\ rs[2].cur.ep = "esearch" /\ rs[2].nreq >= 1)

(***************************************************************************)
(* Exhaustion error claims (SpecFetch).                                    *)
(***************************************************************************)

\* C29: the error raised when the retries of a URL are exhausted names that
\* URL, and the number of tries it reports is the number of requests issued
\* for that URL when it is raised: the requests issued before the call of
\* get() that raises it, or those and the one that call issues.
C29_ErrorReportsRequests ==
  [][Len(out'.errors) > Len(out.errors) =>
       LET e == out'.errors[Len(out'.errors)]
           \* a URL taken from the queue in this step has no request yet
           issued == IF Len(rs'[1].queue) < Len(rs[1].queue) THEN 0 ELSE rs[1].nreq
       IN  e.kind = "retries" =>
             e.url = rs'[1].cur /\ e.tries \in {issued, issued + 1}]_vars

(***************************************************************************)
(* Response classification claims (SpecClassify).                          *)
(***************************************************************************)

\* The responses the claim lists as retried, with the given reading of the
\* status that fails.
ListedFailure(r, okStatus) ==
  \/ r.err
  \/ ~r.res
  \/ r.statusCode \notin okStatus
  \/ r.body.empty
  \/ (r.body.esr /\ r.body.ERROR)
  \/ r.body.unable
  \/ r.body.error

\* gotData has run in the step: the request is no longer out.
Handled(okStatus) ==
  (rs[1].pc = "inflight" /\ rs'[1].pc # "inflight")
    => /\ rs'[1].pc = "retryTimer" <=> ListedFailure(rs[1].resp, okStatus)
       /\ rs'[1].pc = "retryTimer" => rs'[1].npush = rs[1].npush
       /\ rs'[1].pc # "retryTimer"
            => /\ rs'[1].pc = "nextTimer"
               /\ rs'[1].npush = rs[1].npush + 1
               /\ rs'[1].body = rs[1].resp.body
               /\ rs'[1].nreq = rs[1].nreq

\* C30 as stated: the request is retried exactly on a transport error, a
\* missing response, a non-2xx status, an empty body, esearchresult.ERROR, the
\* esummaryresult sentinel or body.error; any other response, every 2xx
\* response with a non-empty body free of those marks included, is forwarded.
C30_RetryIffNon2xx == [][Handled(200..299)]_vars

\* C30: the request is retried exactly on a transport error, a missing
\* response, a status other than 200, an empty body, esearchresult.ERROR, the
\* esummaryresult sentinel or body.error; any other response is forwarded
\* without a retry.
C30_RetryIffNot200 == [][Handled({200})]_vars

\* A 206 response with a well-formed body was retried.
C30_Witness ==
  /\ rs[1].pc = "retryTimer"
  /\ rs[1].resp = Response(FALSE, TRUE, 206, SearchBody(2))

(***************************************************************************)
(* Retry counter claims (SpecFetch).                                       *)
(***************************************************************************)

\* C31: the attempt counter belongs to one request: the exhausted-retries
\* error is raised for a URL only after that URL itself has failed 9 times,
\* whatever happened to the URLs the stage handled before it.
C31_CounterScopedToUrl ==
  \A s \in Stages : rs[s].nerr >= 1 => rs[s].nfail >= MAXTRIES

(***************************************************************************)
(* Sequencing claims (SpecOrder).                                          *)
(***************************************************************************)

\* The stages whose request is out.
InFlight == { s \in Stages : rs[s].pc = "inflight" }

\* C32: in one search pipeline at most one request is in flight at any time:
\* the request for the next page is not issued while the paged search or the
\* summary fetch of an earlier page is outstanding.
C32_OneRequestInFlight ==
  call.built = "search" => Cardinality(InFlight) <= 1

(***************************************************************************)
(* Expand claims (SpecExpand).                                             *)
(***************************************************************************)

\* expand holds a record all of whose searches were answered without a
\* record: no listener is left that could push it or call next.
ExpandStalled ==
  /\ xp.fn = "expand" /\ xp.busy /\ xp.inner # <<>>
  /\ \A k \in 1..Len(xp.inner) : xp.inner[k].answered /\ xp.inner[k].ndata = 0

\* C33: when the search expand started for the id of a record gives no
\* record, expand still finishes with the record (pushes or drops it and takes
\* the next one): it never stays on it for ever.
C33_ExpandNeverStalls == ~ExpandStalled

(***************************************************************************)
(* Plink claims (SpecXref).                                                *)
(***************************************************************************)

\* plink holds a record whose link stream was answered and gave no result:
\* gotData, the only place that pushes the record and calls next, has no
\* event left to run on.
PlinkStalled ==
  /\ xp.fn = "plink" /\ xp.busy /\ proc = "running"
  /\ xp.inner # <<>> /\ xp.inner[1].answered /\ xp.inner[1].ndata = 0

\* C34: every record with <property>id written to plink is in the end pushed
\* and its completion signalled, also when link gives no result for the id
\* (the record then carries <destDB>id = []): plink never stays on a record
\* whose link was answered without a result.
C34_PlinkNeverStalls == ~PlinkStalled

(***************************************************************************)
(* Expand fan-out claims (SpecExpand).                                     *)
(***************************************************************************)

\* C35: for a record whose id field holds several ids, under every order in
\* which the searches give their record, the record is pushed only once every
\* one of its searches has given its result, and what is pushed is that same
\* record with the results of its own searches, in the order of its ids.
C35_FanOutAssociation ==
  (xp.fn = "expand" /\ xp.array /\ xp.nnext >= 1)
    => LET ids == getValue(xp.given, xp.property \o "id")
       IN  /\ Len(xp.inner) = Len(ids.v)
           /\ \A k \in 1..Len(xp.inner) :
                xp.inner[k].ndata >= 1 /\ xp.inner[k].term = <<ids.v[k]>>
           /\ xp.pushed # <<>>
           /\ xp.pushed[Len(xp.pushed)] =
                [f \in DOMAIN xp.given \cup {xp.dest} |->
                   IF f = xp.dest
                   THEN Value(TRUE, [k \in 1..Len(xp.inner) |-> xp.inner[k].data])
                   ELSE xp.given[f]]

\* Two ids whose searches gave different records, both attached.
C35_Witness ==
  /\ xp.fn = "expand" /\ xp.array /\ xp.nnext = 1 /\ proc = "running"
  /\ Len(xp.inner) = 2
  /\ xp.inner[1].data # xp.inner[2].data
  /\ xp.pushed[Len(xp.pushed)][xp.dest].v = <<xp.inner[1].data, xp.inner[2].data>>

(***************************************************************************)
(* Directory listing claims (SpecAssembly).                                *)
(***************************************************************************)

\* C36: in urls for assembly, when the request for the directory listing is
\* answered with no response or with a status other than 200, an error is
\* raised on the error channel of the output stream and no URL map is pushed
\* for the record.
C36_ListingFailureSurfaced ==
  [][(dl.ftp.pc = "inflight" /\ dl'.ftp.pc = "done"
        /\ (~dl'.ftp.resp.res \/ dl'.ftp.resp.statusCode # 200))
       => /\ Len(out'.errors) > Len(out.errors)
          /\ dl'.ftp.maps = dl.ftp.maps]_vars

(***************************************************************************)
(* Download log claims (SpecDownload).                                     *)
(***************************************************************************)

\* C37: an entry of the download log is a value of its own: once it has been
\* pushed with status 'downloading', the entries pushed later for the same
\* file do not change what it says.
C37_LogEntriesIndependent ==
  dl.fn = "download"
    => \A i \in 1..Len(dl.log) : pushedEntries(dl)[i].status = dl.log[i].status

(***************************************************************************)
(* Id-list chunking claims (SpecChunks).                                   *)
(***************************************************************************)

\* The ids of a sequence of requests, one after another.
RECURSIVE AllIds(_)
AllIds(reqs) == IF reqs = <<>> THEN <<>> ELSE Head(reqs).id \o AllIds(Tail(reqs))

\* C38: for a page response with an id list of n ids createAPIDataUrl, and
\* createAPIFetchUrl for fetch, push ceil(n/50) requests of at most 50 ids
\* each, whose ids one after another are the id list exactly; for a missing or
\* empty id list they push nothing; no error is raised and next is called.
C38_IdListChunking ==
  (call.built \in {"dataUrl", "fetchUrl"} /\ pg.obj # NoResult /\ pg.obj.body.esr)
    => LET n == Len(pg.obj.body.idlist)
       IN  /\ Len(pg.pushed) = (n + 49) \div 50
           /\ \A k \in 1..Len(pg.pushed) :
                /\ Len(pg.pushed[k].id) \in 1..50
                /\ pg.pushed[k].ep = IF call.built = "fetchUrl" THEN "efetch" ELSE "esummary"
           /\ AllIds(pg.pushed) = pg.obj.body.idlist
           /\ pg.errors = <<>> /\ out.errors = <<>>
           /\ pg.nnext = 1 /\ proc = "running"

\* 101 ids: chunks of 50, 50 and 1.
C38_Witness ==
  /\ call.built = "dataUrl" /\ pg.nnext = 1
  /\ Len(pg.obj.body.idlist) = 101
  /\ Len(pg.pushed) = 3
  /\ Len(pg.pushed[2].id) = 50 /\ pg.pushed[3].id = <<"u101">>

(***************************************************************************)
(* Paginator termination claims (SpecPaginate).                            *)
(***************************************************************************)

\* C39: for every limit (0 included), every throughput (0 or none included)
\* and every reported count, the paginator pushes finitely many page requests
\* for a search response and then calls next.
C39_PaginatorTerminates ==
  /\ proc # "looping"
  /\ (call.built = "paginate" /\ pg.obj # NoResult) => pg.nnext = 1

(***************************************************************************)
(* Database name claims (SpecDb).                                          *)
(***************************************************************************)

\* C40: for every valid database and every term, with quotes, '&', '=' or '#'
\* in it, the search URL has exactly one db parameter, and the database name
\* the paginator and the summary-URL builder read back from the URL and put
\* in every page and summary request is the database the URL was built for.
C40_DbRoundTrip ==
  (call.built \in {"paginate", "dataUrl"} /\ pg.obj # NoResult)
    => /\ Len(dbParams(pg.obj.url)) = 1
       /\ \A k \in 1..Len(pg.pushed) : pg.pushed[k].db = pg.obj.url.db

====
